---- MODULE Spec2Model ----
(***************************************************************************)
(* Model of the assay-dashboard backend: the sync reconciler               *)
(* (routers/sync.py), the ready toggles (routers/assayresult.py) and the   *)
(* push dispatch (routers/notifications.py), over a store of the tables    *)
(* of models.py.  A request handler is one action; the SQLAlchemy session  *)
(* it works in (database.py: autoflush=False) is modelled inside it.       *)
(***************************************************************************)
EXTENDS Integers, Sequences, FiniteSets, TLC

VARIABLES
    db,        \* the committed database: one entry per table of models.py
    settings,  \* config.settings: the push credentials that are configured
    pre,       \* the committed database as it was when the last request began
    req,       \* the last request: its endpoint and its input
    resp,      \* what the caller of the last request received
    pushes,    \* the pushes the last request handed to the providers, in order
    provider,  \* how the push providers answer the requests of this behaviour
    clock,     \* time.time(), in seconds
    cache,     \* the _token_cache dict of services/apns.py and of services/fcm.py
    threads    \* the threads of the worker pool inside _get_token / _get_access_token

vars == <<db, settings, pre, req, resp, pushes, provider, clock, cache, threads>>

-----------------------------------------------------------------------------
(* Bounds of the model *)

MaxBatch == 2    \* records in one sync batch, over the four lists together

UserIds == 1..3
AssayIds == 1..2
SpoilIds == {1}
LossIds == {1}
\* Two timestamps give every order of an incoming and a stored `modified`:
\* older, equal, newer, and either one absent.
Times == {1, 2}

-----------------------------------------------------------------------------
(* Values *)

\* Python's None, SQL NULL
None == "None"

\* A `modified` value.  Stored in a DateTime column it is NULL or a naive
\* timestamp; in a sync payload it may also be a string that
\* datetime.fromisoformat rejects.
NoStamp == [form |-> "none", t |-> 0]
Naive(t) == [form |-> "naive", t |-> t]
BadStamp == [form |-> "malformed", t |-> 0]
StoredStamps == {NoStamp} \cup {Naive(t) : t \in Times}
PayloadStamps == StoredStamps \cup {BadStamp}

\* The value of an ISO-8601 string with a Z suffix after
\* datetime.fromisoformat(s.replace('Z', '+00:00')): a timestamp with an offset
Aware(t) == [form |-> "aware", t |-> t]
ZStamps == {Aware(t) : t \in Times} \cup {Naive(t) : t \in Times}

\* Payloads of PushDataRequest (List[dict]); the keys the model tracks.
UserPayloads == [id : UserIds, modified : PayloadStamps]
AssayPayloads ==
    {r \in [id : AssayIds, customer : 1..2, ready : BOOLEAN, modified : PayloadStamps] :
        r.customer = r.id}
SpoilPayloads == [id : SpoilIds, modified : PayloadStamps]
LossPayloads == [id : LossIds, modified : PayloadStamps]

\* Sequences over S of length n
SeqsOfLen(S, n) == [1..n -> S]

\* The rows of a set, as the sequence ordered by primary key
RECURSIVE ById(_)
ById(S) ==
    IF S = {} THEN <<>>
    ELSE LET x == CHOOSE y \in S : \A z \in S : y.id <= z.id
         IN <<x>> \o ById(S \ {x})

-----------------------------------------------------------------------------
(* Push dispatch: routers/notifications.py *)

\* Python truthiness of an Optional[str]
Truthy(x) == x # None /\ x # ""

\* f"assay-ready-{assay_id}" if assay_id else None  (assay_id 0 stands for an
\* argument that was not passed: both are falsy)
collapse_id_of(assay_id) ==
    IF assay_id # 0 THEN "assay-ready-" \o ToString(assay_id) ELSE None

\* Mutant: the platform tag alone picks the native channel
select_by_platform(cfg, device_token, device_type) ==
    IF Truthy(device_token) /\ device_type = "ios" THEN "apns"
    ELSE IF Truthy(device_token) /\ device_type = "android" THEN "fcm"
    ELSE "expo"

\* The branch send_push_notification and send_not_ready_notification take
select_channel(cfg, device_token, device_type) ==
    IF Truthy(device_token) /\ device_type = "ios" /\ Truthy(cfg.APNS_KEY_ID)
    THEN "apns"
    ELSE IF Truthy(device_token) /\ device_type = "android"
            /\ Truthy(cfg.FCM_SERVICE_ACCOUNT_PATH)
    THEN "fcm"
    ELSE "expo"

\* The provider request send_push_notification makes; data is the assay_id
\* of its data payload
send_push_notification(cfg, expo_push_token, title, data, device_token, device_type, assay_id) ==
    LET channel == select_channel(cfg, device_token, device_type) IN
    [ channel |-> channel,
      to |-> IF channel = "expo" THEN expo_push_token ELSE device_token,
      title |-> title,
      data |-> data,
      push_type |-> "alert",
      collapse_id |-> IF channel = "apns" THEN collapse_id_of(assay_id) ELSE None ]

\* The provider request send_not_ready_notification makes: the same branches;
\* its send_apns_alert call passes no collapse_id
send_not_ready_notification(cfg, expo_push_token, assay_id, device_token, device_type) ==
    LET channel == select_channel(cfg, device_token, device_type) IN
    [ channel |-> channel,
      to |-> IF channel = "expo" THEN expo_push_token ELSE device_token,
      title |-> "Assay Not Ready",
      data |-> assay_id,
      push_type |-> "alert",
      collapse_id |-> None ]

\* How a provider answers a request: it accepts it, rejects it with a
\* non-success status, cannot be reached (the connection fails), is reached
\* with signing material that is missing or malformed, or never answers
Providers == {"accepts", "rejects", "unreachable", "bad_credential", "silent"}

\* Mutant: the Expo request is made outside a try block
deliver_unguarded(push, prov) ==
    IF push.channel = "expo" /\ prov \in {"unreachable", "rejects"}
    THEN [kind |-> "raised"]
    ELSE IF prov = "silent" /\ push.channel # "apns"
    THEN [kind |-> "blocked"]
    ELSE [kind |-> "returned", value |-> "result"]

\* What the sender of a push gets back.  send_apns_alert and
\* send_fcm_notification return a dict with the status, or status 0 and the
\* error when anything in their try block raises (signing, connecting,
\* httpx's default timeout); the Expo branch returns the response's JSON, or
\* None when its try block raises.  requests.post is called without a
\* timeout: under a provider that never answers the FCM and Expo senders do
\* not return.
deliver(push, prov) ==
    IF prov = "silent" /\ push.channel \in {"fcm", "expo"}
    THEN [kind |-> "blocked"]
    ELSE IF push.channel \in {"apns", "fcm"}
    THEN [kind |-> "returned",
          value |-> CASE prov = "accepts" -> "status 200"
                      [] prov = "rejects" -> "status 4xx"
                      [] OTHER -> "status 0"]
    ELSE [kind |-> "returned",
          value |-> CASE prov \in {"accepts", "bad_credential"} -> "json"
                      [] prov = "rejects" -> "json"
                      [] OTHER -> None]

\* What becomes of a request whose handler would end as r: its pushes are
\* sent one after another before the commit, so a sender that does not
\* return leaves the request there, and one that raises ends the request
\* unless the call is guarded (the try block of _send_push_for_assay)
serve(database, r, prov, guarded) ==
    LET results == [i \in 1..Len(r.pushes) |-> deliver(r.pushes[i], prov)]
        stops == {i \in 1..Len(r.pushes) :
                     \/ results[i].kind = "blocked"
                     \/ results[i].kind = "raised" /\ ~guarded}
    IN IF stops = {} THEN r
       ELSE LET k == CHOOSE i \in stops : \A j \in stops : i <= j
            IN [ db |-> database,
                 pushes |-> SubSeq(r.pushes, 1, k),
                 resp |-> IF results[k].kind = "blocked"
                          THEN [kind |-> "blocked"]
                          ELSE [kind |-> "exception", error |-> "PushError"] ]

\* Mutant: the query has lost its filter
all_push_tokens(tokens, customer) == ById(tokens)

\* db.query(models.PushToken).filter(models.PushToken.user_id == customer).all()
push_tokens_of(tokens, customer) ==
    ById({p \in tokens : p.user_id = customer})

\* _send_push_for_assay: one send_push_notification per registration of the
\* assay's customer, passing the routing token, title, body and data only
send_push_for_assay(cfg, tokens, customer, assay_id) ==
    LET regs == push_tokens_of(tokens, customer) IN
    [i \in 1..Len(regs) |->
        send_push_notification(cfg, regs[i].token, "Assay Ready", assay_id, None, None, 0)]

-----------------------------------------------------------------------------
(* The token caches: services/apns.py _get_token, services/fcm.py           *)
(* _get_access_token.  The handlers are plain def functions, which the      *)
(* server runs in a thread pool: a thread can be switched out between any   *)
(* two reads or writes of the dict.                                         *)

\* (now - _token_cache["generated_at"]) > 3000
Threshold == 3000

CacheKeys == {"apns", "fcm"}
Callers == {"t1", "t2"}

\* The instants at which the clock is read: a first one, one threshold
\* later, a second after that, and one threshold after that
Instants == {0, Threshold, Threshold + 1, 2 * Threshold + 1}

\* A credential, named by the call that made it; NoToken is None
Token(now, by) == [now |-> now, by |-> by]
NoToken == [now |-> 0 - 1, by |-> "nobody"]

\* _token_cache = {"token": None, "generated_at": 0}
EmptyCache == [token |-> NoToken, generated_at |-> 0]

\* A thread outside the function, which it calls in service k.  now is the
\* function's local; seen_token is the value its test has read; at_call,
\* regenerated and result tell of its last call: the cache as the call
\* found it, whether it generated, and what it returned; sent is what the
\* sender that called it returned when the function raised.
IdleThread(k) ==
    [pc |-> "idle", key |-> k, now |-> 0, at_call |-> EmptyCache,
     seen_token |-> NoToken, regenerated |-> FALSE, result |-> NoToken,
     sent |-> None]

NoTokenCalls ==
    /\ clock = 0
    /\ cache = [k \in CacheKeys |-> EmptyCache]
    /\ threads = [c \in Callers |-> IdleThread("apns")]

\* Mutant: the age test lets the threshold itself through
expired_at_threshold(now, generated_at) == now - generated_at >= Threshold

\* (now - _token_cache["generated_at"]) > 3000
expired(now, generated_at) == now - generated_at > Threshold

\* now = time.time(), on entry
Call(c) ==
    /\ threads[c].pc \in {"idle", "done", "raised"}
    /\ threads' = [threads EXCEPT ![c] =
                      [IdleThread(threads[c].key) EXCEPT
                          !.pc = "check_token", !.now = clock,
                          !.at_call = cache[threads[c].key]]]
    /\ UNCHANGED <<clock, cache>>

\* if _token_cache["token"] is None or ...
CheckToken(c) ==
    /\ threads[c].pc = "check_token"
    /\ LET token == cache[threads[c].key].token IN
       threads' = [threads EXCEPT ![c].seen_token = token,
                                  ![c].pc = IF token = NoToken THEN "generate"
                                            ELSE "check_age"]
    /\ UNCHANGED <<clock, cache>>

\* ... or (now - _token_cache["generated_at"]) > 3000:
CheckAge(c) ==
    /\ threads[c].pc = "check_age"
    /\ LET generated_at == cache[threads[c].key].generated_at IN
       threads' = [threads EXCEPT ![c].pc = IF expired(threads[c].now, generated_at)
                                            THEN "generate" ELSE "return"]
    /\ UNCHANGED <<clock, cache>>

\* Mutant: a generation that fails empties the cache entry
GenerateAndForget(c) ==
    /\ threads[c].pc = "generate"
    /\ \E ok \in BOOLEAN :
          /\ threads' = [threads EXCEPT
                            ![c].regenerated = TRUE,
                            ![c].seen_token = NoToken,
                            ![c].pc = IF ok THEN "store_token" ELSE "raised"]
          /\ cache' = IF ok THEN cache ELSE [cache EXCEPT ![threads[c].key] = EmptyCache]
    /\ UNCHANGED clock

\* _generate_jwt() / credentials.refresh(Request()): makes a credential, or
\* raises when the signing material is missing or the exchange fails; the
\* exception leaves _get_token before its assignments and is caught by the
\* sender (send_apns_alert, send_fcm_notification), which returns status 0
Generate(c) ==
    /\ threads[c].pc = "generate"
    /\ \E ok \in BOOLEAN :
          threads' = [threads EXCEPT
                        ![c].regenerated = TRUE,
                        ![c].seen_token = NoToken,
                        ![c].pc = IF ok THEN "store_token" ELSE "raised",
                        ![c].sent = IF ok THEN None
                                    ELSE deliver([channel |-> threads[c].key],
                                                 "bad_credential").value]
    /\ UNCHANGED <<clock, cache>>

\* _token_cache["token"] = <the new credential>
StoreToken(c) ==
    /\ threads[c].pc = "store_token"
    /\ cache' = [cache EXCEPT ![threads[c].key].token = Token(threads[c].now, c)]
    /\ threads' = [threads EXCEPT ![c].pc = "store_time"]
    /\ UNCHANGED clock

\* _token_cache["generated_at"] = now
StoreTime(c) ==
    /\ threads[c].pc = "store_time"
    /\ cache' = [cache EXCEPT ![threads[c].key].generated_at = threads[c].now]
    /\ threads' = [threads EXCEPT ![c].pc = "return"]
    /\ UNCHANGED clock

\* return _token_cache["token"]
Return(c) ==
    /\ threads[c].pc = "return"
    /\ threads' = [threads EXCEPT ![c].result = cache[threads[c].key].token,
                                  ![c].seen_token = NoToken,
                                  ![c].pc = "done"]
    /\ UNCHANGED <<clock, cache>>

\* Time passes, to a later instant
Tick ==
    /\ \E t \in Instants : t > clock /\ clock' = t
    /\ UNCHANGED <<cache, threads>>

GetToken(c) ==
    \/ Call(c)
    \/ CheckToken(c)
    \/ CheckAge(c)
    \/ Generate(c)
    \/ StoreToken(c)
    \/ StoreTime(c)
    \/ Return(c)

Requests == <<db, settings, pre, req, resp, pushes, provider>>

InitCache ==
    /\ db = [pushtoken |-> {}]
    /\ settings = [APNS_KEY_ID |-> "KEYID", FCM_SERVICE_ACCOUNT_PATH |-> "fcm.json"]
    /\ pre = db
    /\ req = [endpoint |-> "idle"]
    /\ resp = [kind |-> "none"]
    /\ pushes = <<>>
    /\ provider = "accepts"
    /\ clock = 0
    /\ cache = [k \in CacheKeys |-> EmptyCache]
    /\ \E k \in CacheKeys : threads = [c \in Callers |-> IdleThread(k)]

\* The calls of the threads, interleaved step by step
Concurrent == \E c \in Callers : GetToken(c) /\ UNCHANGED Requests

NextCache == Concurrent \/ (Tick /\ UNCHANGED Requests)

SpecCache == InitCache /\ [][NextCache]_vars

\* One call at a time: a thread takes a step only while every other thread
\* is outside the function
OneByOne ==
    \E c \in Callers :
        /\ \A d \in Callers \ {c} : threads[d].pc \in {"idle", "done", "raised"}
        /\ GetToken(c)
        /\ UNCHANGED Requests

NextCacheSeq == OneByOne \/ (Tick /\ UNCHANGED Requests)

SpecCacheSeq == InitCache /\ [][NextCacheSeq]_vars

-----------------------------------------------------------------------------
(* The SQLAlchemy session of one request: database.py, autoflush=False.     *)
(* view: the rows the session's queries return (committed rows, rows it has *)
(* flushed, and its unflushed attribute changes to them, which the identity *)
(* map keeps); notification: the notification table as the transaction sees *)
(* it, a bulk delete taking rows out at once; notifications: the            *)
(* notification objects given to db.add;                                    *)
(* pending: objects given to db.add and not yet flushed, which              *)
(* no query sees; active: FALSE once a flush has failed, after which every  *)
(* query, flush and commit raises until rollback.                           *)

SyncTables == {"user", "assayresult", "spoilrecord", "loss"}

\* The request's session and the handler's local variables, at its start
begin(database) ==
    [ view |-> [t \in SyncTables |-> database[t]],
      notification |-> database.notification,
      pending |-> <<>>,
      notifications |-> <<>>,
      active |-> TRUE,
      synced |-> [t \in SyncTables |-> 0],
      notifications_created |-> 0,
      errors |-> <<>>,
      pushes |-> <<>> ]

\* Two INSERTs of one primary key, or an INSERT of a key the table holds
violates_primary_key(h) ==
    \/ \E i, j \in 1..Len(h.pending) :
          /\ i < j
          /\ h.pending[i].table = h.pending[j].table
          /\ h.pending[i].id = h.pending[j].id
    \/ \E i \in 1..Len(h.pending) :
          h.pending[i].id \in DOMAIN h.view[h.pending[i].table]

\* ForeignKey("user.id") of assayresult.customer and spoilrecord.customer: a
\* row to insert, or a row of the session, whose customer is neither a user
\* of the database nor one the same flush inserts (the unit of work inserts
\* the users first)
violates_foreign_key(h) ==
    LET users == DOMAIN h.view.user
                 \cup {h.pending[i].id : i \in {j \in 1..Len(h.pending) :
                                                    h.pending[j].table = "user"}}
    IN \/ \E i \in 1..Len(h.pending) :
             /\ "customer" \in DOMAIN h.pending[i].row
             /\ h.pending[i].row.customer \notin users
       \/ \E t \in {"assayresult", "spoilrecord"} : \E id \in DOMAIN h.view[t] :
             /\ "customer" \in DOMAIN h.view[t][id]
             /\ h.view[t][id].customer \notin users

RECURSIVE insert_all(_, _)
insert_all(view, pending) ==
    IF pending = <<>> THEN view
    ELSE LET p == Head(pending) IN
         insert_all([view EXCEPT ![p.table] = @ @@ (p.id :> p.row)], Tail(pending))

\* Session.flush(): the pending INSERTs go to the database in the request's
\* transaction; a constraint violation fails the flush, rolls the
\* transaction back and leaves the session inactive
flush(h) ==
    IF violates_primary_key(h) \/ violates_foreign_key(h)
    THEN [h EXCEPT !.active = FALSE]
    ELSE [h EXCEPT !.view = insert_all(h.view, h.pending), !.pending = <<>>]

-----------------------------------------------------------------------------
(* push_data: routers/sync.py *)

\* Mutant: the comparison lets a tie through
is_newer_or_equal(local_modified, existing_modified) ==
    /\ local_modified.form # "none"
    /\ \/ existing_modified.form = "none"
       \/ local_modified.t >= existing_modified.t

\* local_modified > existing.modified raises TypeError ("can't compare
\* offset-naive and offset-aware datetimes") for a timestamp with an offset
\* against the naive one a DateTime column holds; `and` and `or` skip the
\* comparison when local_modified is None or existing.modified is None
compare_raises(local_modified, existing_modified) ==
    local_modified.form = "aware" /\ existing_modified.form = "naive"

\* local_modified and (existing.modified is None or local_modified > existing.modified)
is_newer(local_modified, existing_modified) ==
    /\ local_modified.form # "none"
    /\ \/ existing_modified.form = "none"
       \/ local_modified.t > existing_modified.t

\* Mutant: the record that fails is counted as synced
record_error_counted(h, entity, rec) ==
    LET t == CASE entity = "User" -> "user"
               [] entity = "AssayResult" -> "assayresult"
               [] entity = "SpoilRecord" -> "spoilrecord"
               [] entity = "Loss" -> "loss"
    IN [h EXCEPT !.errors = Append(@, [entity |-> entity, id |-> rec.id]),
                 !.synced[t] = @ + 1]

\* except Exception as e: errors.append(f"<Entity> {data.get('id')}: {str(e)}")
record_error(h, entity, rec) ==
    [h EXCEPT !.errors = Append(@, [entity |-> entity, id |-> rec.id])]

\* The columns of a payload that the model tracks: setattr for each key of
\* an update, Model(**data) for an insert
row_of(rec) == [k \in (DOMAIN rec) \ {"id"} |-> rec[k]]

\* for key, value in data.items(): if key != 'id' and hasattr(existing, key):
\*     setattr(existing, key, value)
updated_row(existing, rec) ==
    [k \in DOMAIN existing \cup DOMAIN row_of(rec) |->
        IF k \in DOMAIN row_of(rec) THEN rec[k] ELSE existing[k]]

\* The try block of the user, spoil record and loss loops
upsert(h, table, entity, rec) ==
    IF ~h.active
    THEN record_error(h, entity, rec)          \* the query raises
    ELSE IF rec.modified.form = "malformed"
    THEN record_error(h, entity, rec)          \* fromisoformat raises
    ELSE IF rec.id \in DOMAIN h.view[table]
    THEN IF compare_raises(rec.modified, h.view[table][rec.id].modified)
         THEN record_error(h, entity, rec)
         ELSE
         IF is_newer(rec.modified, h.view[table][rec.id].modified)
         THEN [h EXCEPT !.view[table][rec.id] = updated_row(@, rec),
                        !.synced[table] = @ + 1]
         ELSE h
    ELSE [h EXCEPT !.pending = Append(@, [table |-> table, id |-> rec.id,
                                          row |-> row_of(rec)]),
                   !.synced[table] = @ + 1]

sync_user(h, rec) == upsert(h, "user", "User", rec)
sync_spoil(h, rec) == upsert(h, "spoilrecord", "SpoilRecord", rec)
sync_loss(h, rec) == upsert(h, "loss", "Loss", rec)

\* db.add(models.Notification(title="Assay Ready", read=False, ...)),
\* notifications_created += 1, _send_push_for_assay(db, assay)
notify_ready(h, cfg, tokens, customer, assay_id) ==
    [h EXCEPT !.notifications = Append(@, [user_id |-> customer, assay_id |-> assay_id,
                                           title |-> "Assay Ready", read |-> FALSE]),
              !.notifications_created = @ + 1,
              !.pushes = @ \o send_push_for_assay(cfg, tokens, customer, assay_id)]

\* Mutant: any change of the flag notifies
ready_changed(local_ready, was_ready) == local_ready # was_ready

\* if local_ready and not was_ready:
became_ready(local_ready, was_ready) == local_ready /\ ~was_ready

\* The try block of the assay result loop
sync_assay(h, cfg, tokens, rec) ==
    IF ~h.active
    THEN record_error(h, "AssayResult", rec)
    ELSE IF rec.modified.form = "malformed"
    THEN record_error(h, "AssayResult", rec)
    ELSE
    LET local_ready == rec.ready IN
    IF rec.id \in DOMAIN h.view.assayresult
    THEN LET existing == h.view.assayresult[rec.id]
             was_ready == existing.ready
         IN IF compare_raises(rec.modified, existing.modified)
            THEN record_error(h, "AssayResult", rec)
            ELSE
            IF is_newer(rec.modified, existing.modified)
            THEN LET h1 == [h EXCEPT !.view.assayresult[rec.id] =
                                        [@ EXCEPT !.customer = rec.customer,
                                                  !.ready = rec.ready,
                                                  !.modified = rec.modified],
                                     !.synced.assayresult = @ + 1]
                 IN IF became_ready(local_ready, was_ready)
                    THEN notify_ready(h1, cfg, tokens, rec.customer, rec.id)
                    ELSE h1
            ELSE h
    ELSE LET h1 == [h EXCEPT !.pending = Append(@, [table |-> "assayresult", id |-> rec.id,
                                   row |-> [customer |-> rec.customer, ready |-> rec.ready,
                                            modified |-> rec.modified, deleted |-> FALSE]]),
                             !.synced.assayresult = @ + 1]
         IN IF local_ready
            THEN LET h2 == flush(h1) IN          \* db.flush()  # Get the ID
                 IF h2.active
                 THEN notify_ready(h2, cfg, tokens, rec.customer, rec.id)
                 ELSE record_error(h2, "AssayResult", rec)
            ELSE h1

RECURSIVE sync_users(_, _)
sync_users(h, recs) ==
    IF recs = <<>> THEN h ELSE sync_users(sync_user(h, Head(recs)), Tail(recs))

RECURSIVE sync_assays(_, _, _, _)
sync_assays(h, cfg, tokens, recs) ==
    IF recs = <<>> THEN h
    ELSE sync_assays(sync_assay(h, cfg, tokens, Head(recs)), cfg, tokens, Tail(recs))

RECURSIVE sync_spoils(_, _)
sync_spoils(h, recs) ==
    IF recs = <<>> THEN h ELSE sync_spoils(sync_spoil(h, Head(recs)), Tail(recs))

RECURSIVE sync_losses(_, _)
sync_losses(h, recs) ==
    IF recs = <<>> THEN h ELSE sync_losses(sync_loss(h, Head(recs)), Tail(recs))

\* The notification rows a commit inserts, numbered by the autoincrement key
numbered(notifications, seq) ==
    {[id |-> seq + i, user_id |-> notifications[i].user_id,
      assay_id |-> notifications[i].assay_id, title |-> notifications[i].title,
      read |-> notifications[i].read] : i \in 1..Len(notifications)}

\* Mutant: the rows the session has flushed stay when the request fails
keep_flushed(database, h) ==
    [database EXCEPT !.user = h.view.user,
                     !.assayresult = h.view.assayresult,
                     !.spoilrecord = h.view.spoilrecord,
                     !.loss = h.view.loss]

\* get_db's finally: db.close() ends the transaction the request left
\* uncommitted, and the database is as the request found it
rollback(database, h) == database

\* db.commit(): flushes what is pending and commits the transaction; raises
\* when the session is inactive, when the flush fails, or when the database
\* fails the commit (commit_ok = FALSE).  Nothing of the request persists then.
commit(database, h, commit_ok) ==
    IF ~h.active
    THEN [ok |-> FALSE, error |-> "PendingRollbackError", db |-> rollback(database, h)]
    ELSE LET f == flush(h) IN
         IF ~f.active
         THEN [ok |-> FALSE, error |-> "IntegrityError", db |-> rollback(database, f)]
         ELSE IF ~commit_ok
         THEN [ok |-> FALSE, error |-> "OperationalError", db |-> rollback(database, f)]
         ELSE [ok |-> TRUE, error |-> None,
               db |-> [database EXCEPT
                          !.user = f.view.user,
                          !.assayresult = f.view.assayresult,
                          !.spoilrecord = f.view.spoilrecord,
                          !.loss = f.view.loss,
                          !.notification = f.notification
                              \cup numbered(f.notifications, database.notification_seq),
                          !.notification_seq = @ + Len(f.notifications)]]

\* Mutant: the assay results before the users
assays_first(database, cfg, data) ==
    sync_losses(
        sync_spoils(
            sync_users(
                sync_assays(begin(database), cfg, database.pushtoken, data.assay_results),
                data.users),
            data.spoil_records),
        data.losses)

\* The handler's local state when it reaches db.commit()
sync_all(database, cfg, data) ==
    sync_losses(
        sync_spoils(
            sync_assays(
                sync_users(begin(database), data.users),
                cfg, database.pushtoken, data.assay_results),
            data.spoil_records),
        data.losses)

\* return PushDataResponse(...); an exception out of db.commit() leaves the
\* handler instead, and the caller gets no report
PushDataResponse(h, c) ==
    IF c.ok
    THEN [ kind |-> "report",
           success |-> Len(h.errors) = 0,
           users_synced |-> h.synced.user,
           assay_results_synced |-> h.synced.assayresult,
           spoil_records_synced |-> h.synced.spoilrecord,
           losses_synced |-> h.synced.loss,
           notifications_created |-> h.notifications_created,
           errors |-> h.errors ]
    ELSE [ kind |-> "exception", error |-> c.error ]

\* push_data as a function of the database, the batch and the commit's fate
push_data(database, cfg, data, commit_ok) ==
    LET h == sync_all(database, cfg, data)
        c == commit(database, h, commit_ok)
    IN [ db |-> c.db, resp |-> PushDataResponse(h, c), pushes |-> h.pushes ]

-----------------------------------------------------------------------------
(* The sync specification: one push_data request on a seeded database *)

PushToken(id, user_id, token, device_token, device_type) ==
    [id |-> id, user_id |-> user_id, token |-> token,
     device_token |-> device_token, device_type |-> device_type]

SeedTokens ==
    { PushToken(1, 1, "ExponentPushToken[a]", "apns-a", "ios"),
      PushToken(2, 1, "ExponentPushToken[b]", None, "android"),
      PushToken(3, 2, "ExponentPushToken[c]", "fcm-c", "android") }

\* A database the program can hold: users 1 and 2, assay 1 of user 1 (ready
\* or not, with the notification its ready transition made), and with
\* `full` a spoil record and a loss; every row last modified at m.
SeedDb(m, ready, full) ==
    [ user |-> (1 :> [modified |-> m]) @@ (2 :> [modified |-> m]),
      assayresult |-> (1 :> [customer |-> 1, ready |-> ready, modified |-> m,
                             deleted |-> FALSE]),
      spoilrecord |-> IF full THEN (1 :> [modified |-> m]) ELSE <<>>,
      loss |-> IF full THEN (1 :> [modified |-> m]) ELSE <<>>,
      notification |-> IF ready
                       THEN {[id |-> 1, user_id |-> 1, assay_id |-> 1,
                              title |-> "Assay Ready", read |-> FALSE]}
                       ELSE {},
      notification_seq |-> IF ready THEN 1 ELSE 0,
      pushtoken |-> SeedTokens ]

Configured == [APNS_KEY_ID |-> "KEYID", FCM_SERVICE_ACCOUNT_PATH |-> "fcm.json"]

Idle == [endpoint |-> "idle"]
NoResponse == [kind |-> "none"]

Init ==
    /\ \E m \in StoredStamps, ready \in BOOLEAN, full \in BOOLEAN :
          db = SeedDb(m, ready, full)
    /\ settings = Configured
    /\ provider = "accepts"
    /\ NoTokenCalls
    /\ pre = db
    /\ req = Idle
    /\ resp = NoResponse
    /\ pushes = <<>>

\* POST /sync/push with a batch of at most n records drawn from the given
\* payload sets, on a database that accepts the commit or fails it
Sync(Users, Assays, Spoils, Losses, n) ==
    /\ \E nu \in 0..n :
       \E na \in 0..(n - nu) :
       \E ns \in 0..(n - nu - na) :
       \E nl \in 0..(n - nu - na - ns) :
       \E us \in SeqsOfLen(Users, nu), as \in SeqsOfLen(Assays, na),
          ss \in SeqsOfLen(Spoils, ns), ls \in SeqsOfLen(Losses, nl),
          commit_ok \in BOOLEAN :
          LET data == [users |-> us, assay_results |-> as,
                       spoil_records |-> ss, losses |-> ls]
              r == serve(db, push_data(db, settings, data, commit_ok), provider, TRUE)
          IN /\ db' = r.db
             /\ resp' = r.resp
             /\ pushes' = r.pushes
             /\ req' = [endpoint |-> "push_data", data |-> data, commit_ok |-> commit_ok]
             /\ pre' = db
    /\ UNCHANGED <<settings, provider, clock, cache, threads>>

\* The first request of a behaviour
Push(Users, Assays, Spoils, Losses, n) ==
    /\ req = Idle
    /\ Sync(Users, Assays, Spoils, Losses, n)

PushData == Push(UserPayloads, AssayPayloads, SpoilPayloads, LossPayloads, MaxBatch)

\* The same request with one record, its modified an ISO-8601 string with
\* or without the Z suffix
Stamped(S) == {[r EXCEPT !.modified = z] : r \in S, z \in ZStamps}

PushStamped ==
    Push(Stamped(UserPayloads), Stamped(AssayPayloads), Stamped(SpoilPayloads),
         Stamped(LossPayloads), 1)

NextStamps == PushStamped

SpecStamps == Init /\ [][NextStamps]_vars

Next == PushData

Spec == Init /\ [][Next]_vars

\* The same request with one more record in the batch, each record stamped
\* with the latest time: long enough for a batch that changes an assay and
\* then repeats a new id
Latest(S) == {r \in S : r.modified = Naive(2)}

PushDataLong ==
    Push(Latest(UserPayloads), Latest(AssayPayloads), Latest(SpoilPayloads),
         Latest(LossPayloads), MaxBatch + 1)

NextLong == PushDataLong

SpecLong == Init /\ [][NextLong]_vars

\* The same request with records that name their customer, a user of the
\* database or user 3; the assay and spoil records that do are well-formed
Referring(S) ==
    {[id |-> r.id, customer |-> c, modified |-> r.modified] : r \in S, c \in {1, 3}}

ReferringAssays ==
    {[r EXCEPT !.customer = c] : r \in Latest(AssayPayloads), c \in {3}}

OrderedUsers == {r \in UserPayloads : r.modified \in {Naive(2), BadStamp}}
OrderedAssays ==
    ReferringAssays \cup {r \in AssayPayloads : r.modified \in {Naive(2), BadStamp} /\ ~r.ready}
OrderedSpoils ==
    Referring(Latest(SpoilPayloads)) \cup {r \in SpoilPayloads : r.modified = BadStamp}
OrderedLosses == {r \in LossPayloads : r.modified \in {Naive(2), BadStamp}}

PushOrdered == Push(OrderedUsers, OrderedAssays, OrderedSpoils, OrderedLosses, MaxBatch)

NextOrder == PushOrdered

SpecOrder == Init /\ [][NextOrder]_vars

-----------------------------------------------------------------------------
(* The ready toggles: routers/assayresult.py *)

MaxIds == 2             \* assay ids in one batch-mark-ready request
MaxNotifications == 3   \* notification rows ever created in one behaviour

\* datetime.now(): no stored or incoming timestamp is later
now == Naive(2)

StaffRoles == {"admin", "worker", "testworker", "boss"}

\* Mutant: the assay query without the filter
any_assay(assay) == TRUE

\* or_(AssayResult.deleted == False, AssayResult.deleted == None); the model's
\* rows hold FALSE for both
not_deleted_filter(assay) == assay.deleted = FALSE

\* The assay query of both handlers: a testworker reaches only the assays
\* of testcustomer accounts
find_assay(h, role, assay_id) ==
    /\ assay_id \in DOMAIN h.view.assayresult
    /\ not_deleted_filter(h.view.assayresult[assay_id])
    /\ role = "testworker" =>
          h.view.user[h.view.assayresult[assay_id].customer].role = "testcustomer"

\* Mutant: the revert deletes nothing
delete_nothing(notification, customer, assay_id) == notification

\* Mutant: the bulk delete without its filter
delete_unfiltered(notification, customer, assay_id) == {}

\* db.query(models.Notification).filter(Notification.assay_id == assay.id,
\*     Notification.user_id == assay.customer).delete()
delete_notifications(notification, customer, assay_id) ==
    {n \in notification : ~(n.assay_id = assay_id /\ n.user_id = customer)}

\* Mutant: the ready notification without the test of the previous flag
set_ready_always(h, cfg, tokens, assay_id, ready) ==
    LET assay == h.view.assayresult[assay_id]
        regs == push_tokens_of(tokens, assay.customer)
        h1 == [h EXCEPT !.view.assayresult[assay_id] =
                           [@ EXCEPT !.ready = ready, !.modified = now]]
    IN IF ready
       THEN [h1 EXCEPT
               !.notifications = Append(@, [user_id |-> assay.customer,
                                            assay_id |-> assay_id,
                                            title |-> "Assay Ready", read |-> FALSE]),
               !.pushes = @ \o [i \in 1..Len(regs) |->
                                   send_push_notification(cfg, regs[i].token, "Assay Ready",
                                       assay_id, regs[i].device_token,
                                       regs[i].device_type, assay_id)]]
       ELSE h1

\* was_ready = assay.ready; assay.ready = ready; assay.modified = now, and
\* the branch of the transition
set_ready(h, cfg, tokens, assay_id, ready) ==
    LET assay == h.view.assayresult[assay_id]
        was_ready == assay.ready
        regs == push_tokens_of(tokens, assay.customer)
        h1 == [h EXCEPT !.view.assayresult[assay_id] =
                           [@ EXCEPT !.ready = ready, !.modified = now]]
    IN IF ready /\ ~was_ready
       THEN [h1 EXCEPT
               !.notifications = Append(@, [user_id |-> assay.customer,
                                            assay_id |-> assay_id,
                                            title |-> "Assay Ready", read |-> FALSE]),
               !.pushes = @ \o [i \in 1..Len(regs) |->
                                   send_push_notification(cfg, regs[i].token, "Assay Ready",
                                       assay_id, regs[i].device_token,
                                       regs[i].device_type, assay_id)]]
       ELSE IF ~ready /\ was_ready
       THEN [h1 EXCEPT
               !.notification = delete_notifications(@, assay.customer, assay_id),
               !.notifications = Append(@, [user_id |-> assay.customer,
                                            assay_id |-> assay_id,
                                            title |-> "Assay Not Ready", read |-> FALSE]),
               !.pushes = @ \o [i \in 1..Len(regs) |->
                                   send_not_ready_notification(cfg, regs[i].token,
                                       assay_id, regs[i].device_token,
                                       regs[i].device_type)]]
       ELSE h1

\* PUT /{assay_id}/mark-ready
mark_assay_ready(database, cfg, role, assay_id, commit_ok) ==
    LET h0 == begin(database) IN
    IF role \notin StaffRoles
    THEN [db |-> database, pushes |-> <<>>, resp |-> [kind |-> "http", status |-> 403]]
    ELSE IF ~find_assay(h0, role, assay_id)
    THEN [db |-> database, pushes |-> <<>>, resp |-> [kind |-> "http", status |-> 404]]
    ELSE LET ready == ~h0.view.assayresult[assay_id].ready
             customer == h0.view.assayresult[assay_id].customer
             h == set_ready(h0, cfg, database.pushtoken, assay_id, ready)
             c == commit(database, h, commit_ok)
         IN [ db |-> c.db,
              pushes |-> h.pushes,
              resp |-> IF ~c.ok THEN [kind |-> "exception", error |-> c.error]
                       ELSE IF ready
                       THEN [kind |-> "marked", assay_id |-> assay_id, ready |-> TRUE,
                             notifications_sent |->
                                 Len(push_tokens_of(database.pushtoken, customer))]
                       ELSE [kind |-> "marked", assay_id |-> assay_id, ready |-> FALSE] ]

\* The loop of batch_mark_assay_ready over data.assay_ids
RECURSIVE mark_each(_, _, _, _, _, _)
mark_each(h, results, cfg, tokens, role, todo) ==
    IF todo.assay_ids = <<>> THEN [h |-> h, results |-> results]
    ELSE LET assay_id == Head(todo.assay_ids)
             rest == [todo EXCEPT !.assay_ids = Tail(@)]
         IN IF ~find_assay(h, role, assay_id)
            THEN mark_each(h, Append(results, [assay_id |-> assay_id,
                                               status |-> "not_found"]),
                           cfg, tokens, role, rest)
            ELSE LET h1 == set_ready(h, cfg, tokens, assay_id, todo.ready) IN
                 mark_each(h1, Append(results, [assay_id |-> assay_id,
                                                ready |-> todo.ready,
                                                notifications_sent |->
                                                    Len(h1.pushes) - Len(h.pushes)]),
                           cfg, tokens, role, rest)

RECURSIVE total_sent(_)
total_sent(results) ==
    IF results = <<>> THEN 0
    ELSE (IF "status" \in DOMAIN Head(results) THEN 0 ELSE Head(results).notifications_sent)
         + total_sent(Tail(results))

\* PUT /batch-mark-ready
batch_mark_assay_ready(database, cfg, role, data, commit_ok) ==
    IF role \notin StaffRoles
    THEN [db |-> database, pushes |-> <<>>, resp |-> [kind |-> "http", status |-> 403]]
    ELSE LET m == mark_each(begin(database), <<>>, cfg, database.pushtoken, role, data)
             c == commit(database, m.h, commit_ok)
         IN [ db |-> c.db,
              pushes |-> m.h.pushes,
              resp |-> IF ~c.ok THEN [kind |-> "exception", error |-> c.error]
                       ELSE [kind |-> "batch", results |-> m.results,
                             total_updated |->
                                 Cardinality({i \in 1..Len(m.results) :
                                                 "status" \notin DOMAIN m.results[i]}),
                             total_notifications_sent |-> total_sent(m.results)] ]

-----------------------------------------------------------------------------
(* The toggle specification: ready toggles, one after another, on a         *)
(* database with two assays and registrations of every platform             *)

\* Customer 1 has a registration of each platform tag with and without a
\* native token; customer 2 has one registration
ToggleTokens ==
    { PushToken(1, 1, "ExponentPushToken[a]", "apns-a", "ios"),
      PushToken(2, 1, "ExponentPushToken[b]", None, "ios"),
      PushToken(3, 1, "ExponentPushToken[c]", "fcm-c", "android"),
      PushToken(4, 1, "ExponentPushToken[d]", None, "android"),
      PushToken(5, 1, "ExponentPushToken[e]", "web-e", "web"),
      PushToken(6, 1, "ExponentPushToken[f]", None, "web"),
      PushToken(7, 2, "ExponentPushToken[g]", "apns-g", "ios") }

\* Assay 1 of customer 1 and assay 2 of the testcustomer 2, neither ready
\* and neither notified of; assay 2 soft-deleted or not
ToggleDb(deleted2) ==
    [ user |-> (1 :> [modified |-> Naive(1), role |-> "customer"])
               @@ (2 :> [modified |-> Naive(1), role |-> "testcustomer"]),
      assayresult |-> (1 :> [customer |-> 1, ready |-> FALSE, modified |-> Naive(1),
                             deleted |-> FALSE])
                      @@ (2 :> [customer |-> 2, ready |-> FALSE, modified |-> Naive(1),
                                deleted |-> deleted2]),
      spoilrecord |-> <<>>,
      loss |-> <<>>,
      notification |-> {},
      notification_seq |-> 0,
      pushtoken |-> ToggleTokens ]

\* settings: each push credential configured or left at its empty default
Credentials == [APNS_KEY_ID : {"", "KEYID"}, FCM_SERVICE_ACCOUNT_PATH : {"", "fcm.json"}]

Roles == {"admin", "testworker", "customer"}

InitToggle ==
    /\ \E deleted2 \in BOOLEAN : db = ToggleDb(deleted2)
    /\ settings \in Credentials
    /\ provider = "accepts"
    /\ NoTokenCalls
    /\ pre = db
    /\ req = Idle
    /\ resp = NoResponse
    /\ pushes = <<>>

\* A request that failed left the database as it found it, so every request
\* that can follow it already follows the state before it: a behaviour is
\* explored up to its first failed request
Failed == resp.kind \in {"http", "exception", "blocked"}

\* The last request was a toggle
IsToggle == req.endpoint \in {"mark_assay_ready", "batch_mark_assay_ready"}

MarkAssayReady ==
    /\ ~Failed
    /\ db.notification_seq < MaxNotifications
    /\ \E assay_id \in AssayIds \cup {3}, role \in Roles, commit_ok \in BOOLEAN :
          LET r == serve(db, mark_assay_ready(db, settings, role, assay_id, commit_ok),
                         provider, FALSE)
          IN /\ db' = r.db
             /\ resp' = r.resp
             /\ pushes' = r.pushes
             /\ req' = [endpoint |-> "mark_assay_ready", assay_id |-> assay_id,
                        role |-> role, commit_ok |-> commit_ok]
             /\ pre' = db
    /\ UNCHANGED <<settings, provider, clock, cache, threads>>

BatchMarkAssayReady ==
    \E n \in 0..MaxIds :
       /\ ~Failed
       /\ db.notification_seq + n <= MaxNotifications
       /\ \E assay_ids \in SeqsOfLen(AssayIds, n), ready \in BOOLEAN,
             role \in Roles, commit_ok \in BOOLEAN :
             LET data == [assay_ids |-> assay_ids, ready |-> ready]
                 r == serve(db, batch_mark_assay_ready(db, settings, role, data, commit_ok),
                            provider, FALSE)
             IN /\ db' = r.db
                /\ resp' = r.resp
                /\ pushes' = r.pushes
                /\ req' = [endpoint |-> "batch_mark_assay_ready", data |-> data,
                           role |-> role, commit_ok |-> commit_ok]
                /\ pre' = db
       /\ UNCHANGED <<settings, provider, clock, cache, threads>>

NextToggle == MarkAssayReady \/ BatchMarkAssayReady

SpecToggle == InitToggle /\ [][NextToggle]_vars

-----------------------------------------------------------------------------
(* The delivery specification: one request, a ready toggle or a sync of one *)
(* assay record, under each behaviour of the push providers                 *)

\* The toggle database with assay 1 ready or not, and with the notification
\* record its ready transition made
DeliveryDb(ready1, deleted2) ==
    IF ready1
    THEN [ToggleDb(deleted2) EXCEPT
            !.assayresult[1].ready = TRUE,
            !.notification = {[id |-> 1, user_id |-> 1, assay_id |-> 1,
                               title |-> "Assay Ready", read |-> FALSE]},
            !.notification_seq = 1]
    ELSE ToggleDb(deleted2)

\* The same with the notification of assay 1 read by the customer (seen),
\* and with the "Assay Not Ready" record an earlier ready toggle and revert
\* of assay 2 left (other)
NotifiedDb(ready1, deleted2, seen, other) ==
    LET d == DeliveryDb(ready1, deleted2)
        d1 == [d EXCEPT !.notification = {[n EXCEPT !.read = seen] : n \in @}]
    IN IF other
       THEN [d1 EXCEPT
               !.notification = @ \cup {[id |-> d1.notification_seq + 1, user_id |-> 2,
                                         assay_id |-> 2, title |-> "Assay Not Ready",
                                         read |-> FALSE]},
               !.notification_seq = @ + 1]
       ELSE d1

InitDelivery ==
    /\ \E ready1 \in BOOLEAN, deleted2 \in BOOLEAN, seen \in BOOLEAN, other \in BOOLEAN :
          db = NotifiedDb(ready1, deleted2, seen, other)
    /\ settings \in Credentials
    /\ provider \in Providers
    /\ NoTokenCalls
    /\ pre = db
    /\ req = Idle
    /\ resp = NoResponse
    /\ pushes = <<>>

\* POST /sync/push with at most one record, an assay stamped with the
\* latest time
PushAssay == Push({}, Latest(AssayPayloads), {}, {}, 1)

NextDelivery ==
    \/ req = Idle /\ MarkAssayReady
    \/ req = Idle /\ BatchMarkAssayReady
    \/ PushAssay

SpecDelivery == InitDelivery /\ [][NextDelivery]_vars

-----------------------------------------------------------------------------
(* Toggles on a database whose assay 2 is soft-deleted, ready or not      *)

\* Assay 2 soft-deleted after it was marked ready (ready2), with the record
\* its ready transition made
DeletedDb(ready1, ready2) ==
    LET d == DeliveryDb(ready1, TRUE) IN
    IF ready2
    THEN [d EXCEPT
            !.assayresult[2].ready = TRUE,
            !.notification = @ \cup {[id |-> d.notification_seq + 1, user_id |-> 2,
                                      assay_id |-> 2, title |-> "Assay Ready",
                                      read |-> FALSE]},
            !.notification_seq = @ + 1]
    ELSE d

InitDeleted ==
    /\ \E ready1 \in BOOLEAN, ready2 \in BOOLEAN : db = DeletedDb(ready1, ready2)
    /\ settings \in Credentials
    /\ provider = "accepts"
    /\ NoTokenCalls
    /\ pre = db
    /\ req = Idle
    /\ resp = NoResponse
    /\ pushes = <<>>

SpecDeleted == InitDeleted /\ [][NextToggle]_vars

-----------------------------------------------------------------------------
(* Toggles followed by the sync service: one /sync/push of one assay      *)
(* record, or one /sync/changes                                           *)

\* GET /sync/changes: the rows with modified > since; the model keeps the
\* ids of the assay results
get_changes(database, since) ==
    [ kind |-> "changes",
      assay_results |-> {a \in DOMAIN database.assayresult :
                            /\ database.assayresult[a].modified.form = "naive"
                            /\ database.assayresult[a].modified.t > since} ]

GetChanges ==
    /\ \E since \in {0} \cup Times :
          /\ req' = [endpoint |-> "get_changes", since |-> since]
          /\ resp' = get_changes(db, since)
    /\ pre' = db
    /\ pushes' = <<>>
    /\ UNCHANGED <<db, settings, provider, clock, cache, threads>>

InitStale ==
    /\ db = ToggleDb(FALSE)
    /\ settings = Configured
    /\ provider = "accepts"
    /\ NoTokenCalls
    /\ pre = db
    /\ req = Idle
    /\ resp = NoResponse
    /\ pushes = <<>>

\* Every request before the sync service's is a toggle
Toggling == req = Idle \/ IsToggle

NextStale ==
    \/ Toggling /\ MarkAssayReady
    \/ Toggling /\ BatchMarkAssayReady
    \/ IsToggle /\ ~Failed /\ Sync({}, AssayPayloads, {}, {}, 1)
    \/ IsToggle /\ ~Failed /\ GetChanges

SpecStale == InitStale /\ [][NextStale]_vars

-----------------------------------------------------------------------------
(* The notification endpoints of routers/notifications.py, called by the   *)
(* customers between ready toggles                                         *)

\* Mutant: the lookup by id alone
any_notification(notification, notification_id, user_id) ==
    {n \in notification : n.id = notification_id}

\* db.query(Notification).filter(and_(Notification.id == notification_id,
\*     Notification.user_id == current_user.id)).first()
own_notification(notification, notification_id, user_id) ==
    {n \in notification : n.id = notification_id /\ n.user_id = user_id}

NotFound == [kind |-> "http", status |-> 404]

\* The end of a handler that writes `written`: db.commit() and the message
committed(database, written, commit_ok) ==
    IF commit_ok
    THEN [db |-> written, resp |-> [kind |-> "ok"]]
    ELSE [db |-> database, resp |-> [kind |-> "exception", error |-> "OperationalError"]]

\* PUT /{notification_id}/read
mark_notification_as_read(database, user_id, notification_id, commit_ok) ==
    LET found == own_notification(database.notification, notification_id, user_id) IN
    IF found = {} THEN [db |-> database, resp |-> NotFound]
    ELSE committed(database,
                   [database EXCEPT !.notification =
                       {IF n \in found THEN [n EXCEPT !.read = TRUE] ELSE n : n \in @}],
                   commit_ok)

\* PUT /read-all
mark_all_notifications_as_read(database, user_id, commit_ok) ==
    committed(database,
              [database EXCEPT !.notification =
                  {IF n.user_id = user_id /\ n.read = FALSE
                   THEN [n EXCEPT !.read = TRUE] ELSE n : n \in @}],
              commit_ok)

\* DELETE /{notification_id}
delete_notification(database, user_id, notification_id, commit_ok) ==
    LET found == own_notification(database.notification, notification_id, user_id) IN
    IF found = {} THEN [db |-> database, resp |-> NotFound]
    ELSE committed(database, [database EXCEPT !.notification = @ \ found], commit_ok)

\* The ids a caller can name: those given out so far and the next one
NotificationIds == 1..(MaxNotifications + 1)

Answer(r, request) ==
    /\ db' = r.db
    /\ resp' = r.resp
    /\ req' = request
    /\ pre' = db
    /\ pushes' = <<>>
    /\ UNCHANGED <<settings, provider, clock, cache, threads>>

MarkNotificationAsRead ==
    /\ ~Failed
    /\ \E user_id \in {1, 2}, notification_id \in NotificationIds, commit_ok \in BOOLEAN :
          Answer(mark_notification_as_read(db, user_id, notification_id, commit_ok),
                 [endpoint |-> "mark_notification_as_read", user_id |-> user_id,
                  notification_id |-> notification_id, commit_ok |-> commit_ok])

MarkAllNotificationsAsRead ==
    /\ ~Failed
    /\ \E user_id \in {1, 2}, commit_ok \in BOOLEAN :
          Answer(mark_all_notifications_as_read(db, user_id, commit_ok),
                 [endpoint |-> "mark_all_notifications_as_read", user_id |-> user_id,
                  commit_ok |-> commit_ok])

DeleteNotification ==
    /\ ~Failed
    /\ \E user_id \in {1, 2}, notification_id \in NotificationIds, commit_ok \in BOOLEAN :
          Answer(delete_notification(db, user_id, notification_id, commit_ok),
                 [endpoint |-> "delete_notification", user_id |-> user_id,
                  notification_id |-> notification_id, commit_ok |-> commit_ok])

NextNotifications ==
    \/ MarkAssayReady
    \/ MarkNotificationAsRead
    \/ MarkAllNotificationsAsRead
    \/ DeleteNotification

SpecNotifications == InitStale /\ [][NextNotifications]_vars

-----------------------------------------------------------------------------
(* Reading the last request *)

IsPush == req.endpoint = "push_data"
Reported == IsPush /\ resp.kind = "report"

\* The list of the batch that feeds a table, the report's count for it, and
\* the name its error entries carry
BatchOf(t) ==
    CASE t = "user" -> req.data.users
      [] t = "assayresult" -> req.data.assay_results
      [] t = "spoilrecord" -> req.data.spoil_records
      [] t = "loss" -> req.data.losses

SyncedOf(t) ==
    CASE t = "user" -> resp.users_synced
      [] t = "assayresult" -> resp.assay_results_synced
      [] t = "spoilrecord" -> resp.spoil_records_synced
      [] t = "loss" -> resp.losses_synced

EntityOf(t) ==
    CASE t = "user" -> "User"
      [] t = "assayresult" -> "AssayResult"
      [] t = "spoilrecord" -> "SpoilRecord"
      [] t = "loss" -> "Loss"

HasError(t, id) ==
    \E i \in 1..Len(resp.errors) :
        resp.errors[i].entity = EntityOf(t) /\ resp.errors[i].id = id

\* The batch holds one record for table t, for an id the database held, with
\* a well-formed payload
LoneUpdate(t) ==
    /\ Len(BatchOf(t)) = 1
    /\ BatchOf(t)[1].id \in DOMAIN pre[t]
    /\ BatchOf(t)[1].modified.form # "malformed"

\* Every field of the payload is stored, the row's other fields are as before
Applied(t, rec) ==
    /\ rec.id \in DOMAIN db[t]
    /\ \A k \in (DOMAIN rec) \ {"id"} : db[t][rec.id][k] = rec[k]
    /\ \A k \in (DOMAIN pre[t][rec.id]) \ (DOMAIN rec) :
          db[t][rec.id][k] = pre[t][rec.id][k]

Untouched(t, id) == db[t][id] = pre[t][id]

-----------------------------------------------------------------------------
(* C1: last-writer-wins *)

\* The rule as the claim words it: strictly newer than the stored timestamp,
\* or the stored timestamp absent
NewerOrLocalAbsent(incoming, stored) ==
    \/ stored.form = "none"
    \/ incoming.form = "naive" /\ stored.form = "naive" /\ incoming.t > stored.t

\* The rule with the incoming timestamp required
StampedAndNewer(incoming, stored) ==
    /\ incoming.form = "naive"
    /\ stored.form = "none" \/ incoming.t > stored.t

LastWriterWins(t, Wins(_, _)) ==
    (Reported /\ LoneUpdate(t)) =>
        LET rec == BatchOf(t)[1] IN
        IF Wins(rec.modified, pre[t][rec.id].modified)
        THEN Applied(t, rec) /\ SyncedOf(t) = 1
        ELSE Untouched(t, rec.id) /\ SyncedOf(t) = 0 /\ ~HasError(t, rec.id)

-----------------------------------------------------------------------------
(* C2: idempotent re-sync *)

\* The same batch pushed again, on the database the first run left
SecondRun == sync_all(db, settings, req.data)
SecondCommit == commit(db, SecondRun, req.commit_ok)

\* C2 as claimed: with the database accepting commits, pushing the batch of
\* the last push_data request a second time leaves the database as the first
\* run left it, creates no notification record, dispatches no push, and
\* lists no more errors than the first run reported.
C2_IdempotentResync ==
    (IsPush /\ req.commit_ok) =>
        /\ SecondCommit.db = db
        /\ SecondRun.notifications = <<>>
        /\ SecondRun.pushes = <<>>
        /\ resp.kind = "report" => Len(SecondRun.errors) <= Len(resp.errors)

\* The same, for first runs that returned a report
C2_IdempotentAfterReport ==
    Reported =>
        /\ SecondCommit.db = db
        /\ SecondRun.notifications = <<>>
        /\ SecondRun.pushes = <<>>
        /\ Len(SecondRun.errors) <= Len(resp.errors)

-----------------------------------------------------------------------------
(* C3, C4: the notifications of a sync batch *)

\* The notification rows the last request added and removed
Created == db.notification \ pre.notification
Deleted == pre.notification \ db.notification

Registrations(customer) == {p \in db.pushtoken : p.user_id = customer}

\* The push went to this registration
Targets(push, reg) ==
    \/ push.to = reg.token
    \/ Truthy(reg.device_token) /\ push.to = reg.device_token

\* The request dispatched exactly one push per registration of the customer,
\* each titled `title`, and no other push
OnePushEach(customer, title) ==
    /\ Len(pushes) = Cardinality(Registrations(customer))
    /\ \A reg \in Registrations(customer) :
          Cardinality({i \in 1..Len(pushes) : Targets(pushes[i], reg)}) = 1
    /\ \A i \in 1..Len(pushes) : pushes[i].title = title

\* The request created exactly one notification record, "Assay Ready" for
\* this customer and assay, unread
OneReadyRecord(customer, assay_id) ==
    /\ Cardinality(Created) = 1
    /\ \A n \in Created :
          /\ n.title = "Assay Ready"
          /\ n.user_id = customer
          /\ n.assay_id = assay_id
          /\ n.read = FALSE

\* The assay list of the batch is one well-formed record
LoneAssay ==
    /\ Reported
    /\ Len(req.data.assay_results) = 1
    /\ req.data.assay_results[1].modified.form # "malformed"

\* C3: a committed push_data whose one assay record has an id the database
\* did not hold and ready = true inserts the assay, creates exactly one
\* unread "Assay Ready" notification record owned by the assay's customer
\* for that assay, dispatches exactly one alert per push-token registration
\* of that customer and none to others, and reports notifications_created = 1.
C3_NewAndReady ==
    (/\ LoneAssay
     /\ req.data.assay_results[1].id \notin DOMAIN pre.assayresult
     /\ req.data.assay_results[1].ready) =>
        LET rec == req.data.assay_results[1] IN
        /\ rec.id \in DOMAIN db.assayresult
        /\ db.assayresult[rec.id].ready
        /\ OneReadyRecord(rec.customer, rec.id)
        /\ OnePushEach(rec.customer, "Assay Ready")
        /\ resp.notifications_created = 1

\* A new, ready assay was inserted for a customer with a registration
C3_Witness ==
    /\ LoneAssay
    /\ req.data.assay_results[1].id \notin DOMAIN pre.assayresult
    /\ req.data.assay_results[1].ready
    /\ Registrations(req.data.assay_results[1].customer) # {}
    /\ Len(pushes) > 0
    /\ Cardinality(Created) = 1

\* C4: in a committed push_data whose one assay record has an id the
\* database held: an applied update that turns ready from false to true
\* creates one "Assay Ready" notification record and one push per
\* registration of the customer; an applied update that turns ready from
\* true to false stores the flag and creates no record, deletes none and
\* dispatches no push; an update the timestamp rule discards creates no
\* record and dispatches no push, whatever its ready flag.
C4_SyncAsymmetry ==
    (LoneAssay /\ req.data.assay_results[1].id \in DOMAIN pre.assayresult) =>
        LET rec == req.data.assay_results[1]
            old == pre.assayresult[rec.id]
            applied == StampedAndNewer(rec.modified, old.modified)
        IN /\ (applied /\ ~old.ready /\ rec.ready) =>
                 /\ db.assayresult[rec.id].ready
                 /\ OneReadyRecord(rec.customer, rec.id)
                 /\ Deleted = {}
                 /\ OnePushEach(rec.customer, "Assay Ready")
                 /\ resp.notifications_created = 1
           /\ (applied /\ old.ready /\ ~rec.ready) =>
                 /\ ~db.assayresult[rec.id].ready
                 /\ db.notification = pre.notification
                 /\ pushes = <<>>
                 /\ resp.notifications_created = 0
           /\ ~applied =>
                 /\ db.assayresult[rec.id] = old
                 /\ db.notification = pre.notification
                 /\ pushes = <<>>
                 /\ resp.notifications_created = 0

\* A sync update turned a ready assay back to not ready and its "Assay
\* Ready" notification record is still there
C4_Witness ==
    /\ LoneAssay
    /\ req.data.assay_results[1].id \in DOMAIN pre.assayresult
    /\ LET rec == req.data.assay_results[1] IN
       /\ pre.assayresult[rec.id].ready
       /\ ~db.assayresult[rec.id].ready
       /\ \E n \in db.notification : n.assay_id = rec.id /\ n.title = "Assay Ready"

-----------------------------------------------------------------------------
(* C8, C9, C10: failures of records and of the commit *)

Malformed(rec) == rec.modified.form = "malformed"

\* No two records of the assay list share an id
DistinctAssays ==
    \A i, j \in 1..Len(req.data.assay_results) :
        req.data.assay_results[i].id = req.data.assay_results[j].id => i = j

\* Record i of the list for table t fails: its payload does not parse, or it
\* inserts a primary key that an earlier record of the list has inserted
Fails(t, i) ==
    LET recs == BatchOf(t) IN
    \/ Malformed(recs[i])
    \/ /\ recs[i].id \notin DOMAIN pre[t]
       /\ \E j \in 1..(i - 1) : recs[j].id = recs[i].id /\ ~Malformed(recs[j])

Failing == {x \in SyncTables \X (1..MaxBatch + 1) :
               x[2] <= Len(BatchOf(x[1])) /\ Fails(x[1], x[2])}

\* C8: when exactly one record of a batch fails and the database accepts
\* the commit, the caller gets a report with exactly one error entry, naming
\* the failing record's entity and id, and every other record that inserts
\* a new id is in the database afterwards.
C8_PartialFailureIsolation ==
    (IsPush /\ req.commit_ok /\ DistinctAssays /\ Cardinality(Failing) = 1) =>
        /\ Reported
        /\ Len(resp.errors) = 1
        /\ \A x \in Failing :
              /\ resp.errors[1].entity = EntityOf(x[1])
              /\ resp.errors[1].id = BatchOf(x[1])[x[2]].id
        /\ \A t \in SyncTables : \A i \in 1..Len(BatchOf(t)) :
              (<<t, i>> \notin Failing) => BatchOf(t)[i].id \in DOMAIN db[t]

\* The same where the one failing record is a malformed payload: this holds
C8_MalformedIsolated ==
    (/\ IsPush /\ req.commit_ok /\ DistinctAssays /\ Cardinality(Failing) = 1
     /\ \A x \in Failing : Malformed(BatchOf(x[1])[x[2]])) =>
        /\ Reported
        /\ Len(resp.errors) = 1
        /\ \A x \in Failing :
              /\ resp.errors[1].entity = EntityOf(x[1])
              /\ resp.errors[1].id = BatchOf(x[1])[x[2]].id
        /\ \A t \in SyncTables : \A i \in 1..Len(BatchOf(t)) :
              (<<t, i>> \notin Failing) => BatchOf(t)[i].id \in DOMAIN db[t]

\* C9: a push_data request that ends in an exception leaves every table as
\* it found it; one that ends in a report has made durable, together, the
\* row of every record without an error entry, with the fields of a record
\* of the batch for each inserted row, and exactly the notification records
\* it counted.
C9_AtomicBatchCommit ==
    IsPush =>
        /\ (resp.kind = "exception") => db = pre
        /\ Reported =>
              /\ \A t \in SyncTables : \A i \in 1..Len(BatchOf(t)) :
                    ~HasError(t, BatchOf(t)[i].id) =>
                        BatchOf(t)[i].id \in DOMAIN db[t]
              /\ \A t \in SyncTables : \A id \in (DOMAIN db[t]) \ (DOMAIN pre[t]) :
                    \E i \in 1..Len(BatchOf(t)) :
                        /\ BatchOf(t)[i].id = id
                        /\ db[t][id].modified = BatchOf(t)[i].modified
              /\ Cardinality(Created) = resp.notifications_created
              /\ Deleted = {}
              /\ db.notification_seq = pre.notification_seq + resp.notifications_created

\* The commit failed after the session had flushed a new, ready assay and
\* sent its pushes, and the database is as before
C9_Witness ==
    /\ IsPush
    /\ resp.kind = "exception"
    /\ \E i \in 1..Len(req.data.assay_results) :
          /\ req.data.assay_results[i].id \notin DOMAIN pre.assayresult
          /\ req.data.assay_results[i].ready
    /\ Len(pushes) > 0
    /\ db = pre

\* C10: every push_data request ends in a report
C10_AlwaysReport == IsPush => resp.kind = "report"

-----------------------------------------------------------------------------
(* C5, C6, C7: the ready toggles of the direct API *)


\* The last request was a toggle that committed and changed the ready flag
\* of assay a
Toggled(a) ==
    /\ IsToggle
    /\ resp.kind \in {"marked", "batch"}
    /\ a \in DOMAIN pre.assayresult
    /\ db.assayresult[a].ready # pre.assayresult[a].ready

\* The notification records of the (customer, assay) pair of assay a
RecordsOf(database, a) ==
    {n \in database.notification :
        n.assay_id = a /\ n.user_id = database.assayresult[a].customer}

\* C5 as claimed: after every toggle that changes an assay's ready flag the
\* (customer, assay) pair has exactly one notification record.
C5_OneRecordAfterEachToggle ==
    \A a \in AssayIds : Toggled(a) => Cardinality(RecordsOf(db, a)) = 1

\* C5: a revert toggle (true to false) deletes every notification record of
\* the (customer, assay) pair and creates one "Assay Not Ready" record, so
\* the pair has exactly one record after it; a ready toggle (false to true)
\* deletes nothing and adds one "Assay Ready" record to the records the pair
\* had.
C5_RevertCollapse ==
    \A a \in AssayIds : Toggled(a) =>
        IF db.assayresult[a].ready
        THEN /\ RecordsOf(pre, a) \subseteq RecordsOf(db, a)
             /\ Cardinality(RecordsOf(db, a) \ RecordsOf(pre, a)) = 1
             /\ \A n \in RecordsOf(db, a) \ RecordsOf(pre, a) :
                   n.title = "Assay Ready" /\ n.id > pre.notification_seq
        ELSE /\ RecordsOf(pre, a) \cap RecordsOf(db, a) = {}
             /\ Cardinality(RecordsOf(db, a)) = 1
             /\ \A n \in RecordsOf(db, a) :
                   n.title = "Assay Not Ready" /\ n.id > pre.notification_seq

\* The third toggle of a true, false, true sequence has committed: the pair
\* holds the "Assay Not Ready" record of the revert and the new "Assay
\* Ready" record
C5_Witness ==
    \E a \in AssayIds :
        /\ Toggled(a)
        /\ db.assayresult[a].ready
        /\ db.notification_seq = 3
        /\ {n.title : n \in RecordsOf(db, a)} = {"Assay Not Ready", "Assay Ready"}

\* C6: every push a committed toggle sends through the native iOS channel,
\* for a ready transition or for a revert, carries the collapse key derived
\* from the id of the assay it is about.
C6_CollapseKeyStable ==
    (IsToggle /\ resp.kind \in {"marked", "batch"}) =>
        \A i \in 1..Len(pushes) :
            pushes[i].channel = "apns" =>
                pushes[i].collapse_id = "assay-ready-" \o ToString(pushes[i].data)

\* The registration a push went to
RegistrationOf(push) ==
    CHOOSE reg \in db.pushtoken : Targets(push, reg)

\* The selector as the rule states it
FirstMatch(reg, cfg) ==
    IF reg.device_token # None /\ reg.device_type = "ios" /\ cfg.APNS_KEY_ID # ""
    THEN "apns"
    ELSE IF reg.device_token # None /\ reg.device_type = "android"
            /\ cfg.FCM_SERVICE_ACCOUNT_PATH # ""
    THEN "fcm"
    ELSE "expo"

\* C7: every push of a toggle, ready or revert, goes through the channel
\* the first-match rule gives for its registration and the configured
\* credentials: native iOS (apns) for a native token, platform ios and iOS
\* credentials; else native Android (fcm) for a native token, platform
\* android and Android credentials; else the fallback (expo).  A
\* registration without a native token gets the fallback whatever its
\* platform, and so does an ios registration when iOS credentials are not
\* configured.
C7_ChannelSelection ==
    IsToggle =>
        \A i \in 1..Len(pushes) :
            /\ \E reg \in db.pushtoken : Targets(pushes[i], reg)
            /\ LET reg == RegistrationOf(pushes[i]) IN
               /\ pushes[i].channel = FirstMatch(reg, settings)
               /\ reg.device_token = None => pushes[i].channel = "expo"
               /\ (reg.device_type = "ios" /\ settings.APNS_KEY_ID = "") =>
                     pushes[i].channel = "expo"

\* A toggle sent pushes through all three channels, and to an ios and an
\* android registration without native token through the fallback
C7_Witness ==
    /\ IsToggle
    /\ {pushes[i].channel : i \in 1..Len(pushes)} = {"apns", "fcm", "expo"}
    /\ \E i \in 1..Len(pushes) :
          /\ pushes[i].channel = "expo"
          /\ RegistrationOf(pushes[i]).device_type = "ios"
    /\ \E i \in 1..Len(pushes) : pushes[i].title = "Assay Not Ready"

-----------------------------------------------------------------------------
(* C11: the dispatcher boundary *)

\* What the senders of the last request's pushes got back
Deliveries == [i \in 1..Len(pushes) |-> deliver(pushes[i], provider)]

\* C11: under a provider that accepts, rejects with a non-success status,
\* cannot be reached, or is reached with missing or malformed signing
\* material, every push of a request (ready toggle, revert, or sync) gives
\* its sender a return value, no request is ended by a push, and a request
\* ends in an exception only when the database fails its commit.
C11_DispatcherBoundary ==
    (req # Idle /\ provider # "silent") =>
        /\ \A i \in 1..Len(pushes) : Deliveries[i].kind = "returned"
        /\ resp.kind # "blocked"
        /\ resp.kind = "exception" => (resp.error # "PushError" /\ ~req.commit_ok)

\* A toggle committed although the provider could not be reached for any of
\* its pushes, which went through the three channels
C11_Witness ==
    /\ req # Idle
    /\ provider = "unreachable"
    /\ resp.kind = "marked"
    /\ {pushes[i].channel : i \in 1..Len(pushes)} = {"apns", "fcm", "expo"}
    /\ db.assayresult[req.assay_id].ready # pre.assayresult[req.assay_id].ready

-----------------------------------------------------------------------------
(* C12, C13: the token caches *)

\* C12: when get-token calls do not overlap, a call made at time t that
\* finds a credential generated at G with t - G <= 3000 returns that
\* credential and generates nothing; a call that finds one with t - G > 3000
\* generates, and when the generation succeeds stores the new credential
\* with generation time t and returns it, a credential different from the
\* old one; a call that finds no credential always generates.
C12_TokenCacheReuse ==
    \A c \in Callers :
        LET t == threads[c]
            G == t.at_call.generated_at
            had == t.at_call.token # NoToken
        IN /\ (t.pc = "done" /\ had /\ t.now - G <= Threshold) =>
                 /\ ~t.regenerated
                 /\ t.result = t.at_call.token
           /\ (t.pc = "done" /\ had /\ t.now - G > Threshold) =>
                 /\ t.regenerated
                 /\ t.result = Token(t.now, c)
                 /\ t.result # t.at_call.token
                 /\ cache[t.key].token = t.result => cache[t.key].generated_at = t.now
           /\ (t.pc = "done" /\ ~had) =>
                 /\ t.regenerated
                 /\ t.result = Token(t.now, c)
           /\ (t.pc = "raised") =>
                 /\ t.regenerated
                 /\ had => t.now - G > Threshold

\* A call made exactly 3000 seconds after the generation has returned the
\* cached credential, and a call one second later has regenerated
C12_Witness ==
    \E c, d \in Callers :
        /\ threads[c].pc = "done"
        /\ threads[c].at_call.token # NoToken
        /\ threads[c].now - threads[c].at_call.generated_at = Threshold
        /\ ~threads[c].regenerated
        /\ threads[d].pc = "done"
        /\ threads[d].at_call.token = threads[c].result
        /\ threads[d].now - threads[d].at_call.generated_at = Threshold + 1
        /\ threads[d].regenerated


\* The generation time is the time of the credential
FromOneGeneration(token, generated_at) == token.now = generated_at

\* No call has returned None
C13_NeverEmpty ==
    \A c \in Callers : threads[c].pc = "done" => threads[c].result # NoToken

\* C13: under every interleaving of the callers, the pair a caller's test
\* reads, the credential and then its generation time, comes from one
\* generation, and no call returns an empty credential.
C13_AtomicSwap ==
    /\ [][\A c \in Callers :
            CheckAge(c) =>
                FromOneGeneration(threads[c].seen_token,
                                  cache[threads[c].key].generated_at)]_vars
    /\ [](\A c \in Callers : threads[c].pc = "done" => threads[c].result # NoToken)


(***************************************************************************)
(* register_push_token (routers/notifications.py): the requests of two     *)
(* clients, each in its own session, interleaved at their accesses to the  *)
(* database.  A thread holds the request's local variables.                *)
(***************************************************************************)
RoutingTokens == {"ExponentPushToken[a]", "ExponentPushToken[b]"}

\* PushTokenCreate, the body of the request
PushTokenCreate ==
    { [token |-> token, device_token |-> d[1], device_type |-> d[2]] :
        token \in RoutingTokens, d \in {<<None, "android">>, <<"native", "ios">>} }

\* The result of a query that finds no row
NoRow == PushToken(0, 0, "", None, "")

\* existing_token is the row found, held by its primary key; had_row and
\* in_place record what the request's successful commit met and left
NoRegistration == [pc |-> "idle", current_user |-> 0,
                   token_data |-> [token |-> "", device_token |-> None, device_type |-> ""],
                   existing_token |-> 0, had_row |-> FALSE, in_place |-> FALSE]

\* The row after the handler's assignments
assigned(row, user, data) ==
    [row EXCEPT !.user_id = user, !.device_token = data.device_token,
                !.device_type = data.device_type]

\* db.query(PushToken).filter(PushToken.token == token).first()
first_with_token(database, token) ==
    LET found == {r \in database.pushtoken : r.token = token}
    IN IF found = {} THEN NoRow ELSE CHOOSE r \in found : \A s \in found : r.id <= s.id

\* The unique index on pushtoken.token
violates_unique(database, token) == \E r \in database.pushtoken : r.token = token

\* The assignments to the row found, written by the commit as an UPDATE of
\* the row of that id
update_token(database, existing, user, data) ==
    [database EXCEPT !.pushtoken =
        { IF r.id = existing
          THEN assigned(r, user, data)
          ELSE r : r \in database.pushtoken }]

\* db.add(push_token), written by the commit as an INSERT with the next id
insert_token(database, user, data) ==
    [database EXCEPT
        !.pushtoken = @ \cup {PushToken(database.pushtoken_seq + 1, user, data.token,
                                        data.device_token, data.device_type)},
        !.pushtoken_seq = @ + 1]

\* The request arrives
Register(c) ==
    /\ threads[c].pc \in {"idle", "done", "raised"}
    /\ \E user \in UserIds, data \in PushTokenCreate :
          threads' = [threads EXCEPT ![c] =
                         [NoRegistration EXCEPT !.pc = "query", !.current_user = user,
                                                !.token_data = data]]
    /\ UNCHANGED db

\* "Check if token already exists"
FindToken(c) ==
    /\ threads[c].pc = "query"
    /\ threads' = [threads EXCEPT
                      ![c].existing_token = first_with_token(db, threads[c].token_data.token).id,
                      ![c].pc = "commit"]
    /\ UNCHANGED db

\* The first db.commit(): the update of the row found or the insert of a new
\* one; the commit raises on a duplicate token, or for any other reason the
\* database has (commit_ok)
CommitToken(c) ==
    LET t == threads[c]
        token == t.token_data.token
    IN /\ t.pc = "commit"
       /\ \E commit_ok \in BOOLEAN :
             LET raises == \/ ~commit_ok
                           \/ t.existing_token = 0 /\ violates_unique(db, token)
                 written == IF t.existing_token # 0
                            THEN update_token(db, t.existing_token, t.current_user, t.token_data)
                            ELSE insert_token(db, t.current_user, t.token_data)
             IN IF raises
                THEN /\ threads' = [threads EXCEPT ![c].pc = "requery"]
                     /\ UNCHANGED db
                ELSE /\ db' = written
                     /\ threads' = [threads EXCEPT
                                       ![c].pc = "done",
                                       ![c].had_row = violates_unique(db, token),
                                       ![c].in_place =
                                           first_with_token(written, token) =
                                               assigned(first_with_token(db, token),
                                                        t.current_user, t.token_data)]

\* except Exception: db.rollback() and the second query; with no row found
\* the handler goes on to its return
FindAgain(c) ==
    /\ threads[c].pc = "requery"
    /\ LET found == first_with_token(db, threads[c].token_data.token)
       IN threads' = [threads EXCEPT
                         ![c].existing_token = found.id,
                         ![c].pc = IF found # NoRow THEN "commit_again" ELSE "done"]
    /\ UNCHANGED db

\* The db.commit() of the handler's except branch; its exception leaves the
\* handler
CommitAgain(c) ==
    LET t == threads[c]
        token == t.token_data.token
    IN /\ t.pc = "commit_again"
       /\ \E commit_ok \in BOOLEAN :
             LET written == update_token(db, t.existing_token, t.current_user, t.token_data)
             IN IF commit_ok
                THEN /\ db' = written
                     /\ threads' = [threads EXCEPT
                                       ![c].pc = "done",
                                       ![c].had_row = violates_unique(db, token),
                                       ![c].in_place =
                                           first_with_token(written, token) =
                                               assigned(first_with_token(db, token),
                                                        t.current_user, t.token_data)]
                ELSE /\ threads' = [threads EXCEPT ![c].pc = "raised"]
                     /\ UNCHANGED db

register_push_token(c) ==
    \/ Register(c)
    \/ FindToken(c)
    \/ CommitToken(c)
    \/ FindAgain(c)
    \/ CommitAgain(c)

\* The store is empty or holds one registration
InitRegister ==
    /\ \E rows \in {{}, {PushToken(1, 1, "ExponentPushToken[a]", "apns-a", "ios")}} :
          db = [pushtoken |-> rows, pushtoken_seq |-> Cardinality(rows)]
    /\ settings = [APNS_KEY_ID |-> "KEYID", FCM_SERVICE_ACCOUNT_PATH |-> "fcm.json"]
    /\ pre = db
    /\ req = [endpoint |-> "idle"]
    /\ resp = [kind |-> "none"]
    /\ pushes = <<>>
    /\ provider = "accepts"
    /\ clock = 0
    /\ cache = [k \in CacheKeys |-> EmptyCache]
    /\ threads = [c \in Callers |-> NoRegistration]

NextRegister ==
    \E c \in Callers :
        /\ register_push_token(c)
        /\ UNCHANGED <<settings, pre, req, resp, pushes, provider, clock, cache>>

SpecRegister == InitRegister /\ [][NextRegister]_vars

-----------------------------------------------------------------------------
(* Registrations and ready toggles, one request after another: the owner  *)
(* of a routing token and the pushes of the ready transitions             *)

\* Mutant: the lookup of unregister_push_token by token alone
any_token(pushtoken, token, user_id) == {r \in pushtoken : r.token = token}

\* db.query(PushToken).filter(and_(PushToken.token == token,
\*     PushToken.user_id == current_user.id)).first()
own_token(pushtoken, token, user_id) ==
    {r \in pushtoken : r.token = token /\ r.user_id = user_id}

\* DELETE /push-token/{token}
unregister_push_token(database, user_id, token, commit_ok) ==
    LET push_token == own_token(database.pushtoken, token, user_id) IN
    IF push_token = {}
    THEN [db |-> database, resp |-> [kind |-> "ok"]]
    ELSE committed(database, [database EXCEPT !.pushtoken = @ \ push_token], commit_ok)

\* POST /push-token served with no other request in between: the first
\* commit (commit_ok), and the commit of the except branch (again_ok)
register_alone(database, user_id, token_data, commit_ok, again_ok) ==
    LET existing_token == first_with_token(database, token_data.token).id
        written == IF existing_token # 0
                   THEN update_token(database, existing_token, user_id, token_data)
                   ELSE insert_token(database, user_id, token_data)
    IN IF commit_ok THEN [db |-> written, resp |-> [kind |-> "ok"]]
       ELSE IF existing_token = 0 THEN [db |-> database, resp |-> [kind |-> "ok"]]
       ELSE committed(database,
                      update_token(database, existing_token, user_id, token_data),
                      again_ok)

\* The store of SeedTokens: tokens a and b of customer 1, token c of
\* customer 2
OwnershipDb ==
    [pushtoken_seq |-> Cardinality(SeedTokens)]
       @@ [ToggleDb(FALSE) EXCEPT !.pushtoken = SeedTokens]

\* A token of customer 1 and a token not yet known
CalledTokens == {"ExponentPushToken[a]", "ExponentPushToken[h]"}

InitOwnership ==
    /\ db = OwnershipDb
    /\ settings = Configured
    /\ provider = "accepts"
    /\ NoTokenCalls
    /\ pre = db
    /\ req = Idle
    /\ resp = NoResponse
    /\ pushes = <<>>

\* At most two rows are inserted in a behaviour
RegisterPushToken ==
    /\ ~Failed
    /\ db.pushtoken_seq <= Cardinality(SeedTokens) + 1
    /\ \E user_id \in {1, 2}, token \in CalledTokens,
          commit_ok \in BOOLEAN, again_ok \in BOOLEAN :
          LET token_data == [token |-> token, device_token |-> None,
                             device_type |-> "android"]
          IN Answer(register_alone(db, user_id, token_data, commit_ok, again_ok),
                    [endpoint |-> "register_push_token", user_id |-> user_id,
                     token_data |-> token_data, commit_ok |-> commit_ok,
                     again_ok |-> again_ok])

UnregisterPushToken ==
    /\ ~Failed
    /\ \E user_id \in {1, 2}, token \in CalledTokens, commit_ok \in BOOLEAN :
          Answer(unregister_push_token(db, user_id, token, commit_ok),
                 [endpoint |-> "unregister_push_token", user_id |-> user_id,
                  token |-> token, commit_ok |-> commit_ok])

NextOwnership ==
    \/ RegisterPushToken
    \/ UnregisterPushToken
    \/ MarkAssayReady

SpecOwnership == InitOwnership /\ [][NextOwnership]_vars

(* C14: device registrations *)

RowsOf(token) == {r \in db.pushtoken : r.token = token}

\* At most one row per routing token
C14_OneRowPerToken == \A token \in RoutingTokens : Cardinality(RowsOf(token)) <= 1

\* A call whose commit found a row of its token left that row, with the
\* caller as owner and the request's native token and platform
C14_UpdatedInPlace ==
    \A c \in Callers :
        LET t == threads[c] IN
        (t.pc = "done" /\ t.had_row) => t.in_place

\* C14: under every interleaving of register_push_token calls the store
\* holds at most one row per routing token, a call for a known token updates
\* that row in place, and a call that has returned success leaves a row for
\* its token in the store.
C14_RegistrationUnique ==
    /\ \A token \in RoutingTokens : Cardinality(RowsOf(token)) <= 1
    /\ \A c \in Callers :
          LET t == threads[c] IN
          /\ (t.pc = "done" /\ t.had_row) => t.in_place
          /\ t.pc = "done" => RowsOf(t.token_data.token) # {}

\* Two registrations of one token by two users: the first inserted the row,
\* the second found it, at its first query or after its commit raised, and
\* made it its own
C14_RaceMerged ==
    \E c \in Callers, d \in Callers :
        /\ c # d
        /\ threads[c].pc = "done" /\ threads[d].pc = "done"
        /\ threads[c].token_data.token = threads[d].token_data.token
        /\ threads[c].existing_token = 0 /\ ~threads[c].had_row
        /\ threads[d].existing_token # 0 /\ threads[d].had_row /\ threads[d].in_place
        /\ threads[d].current_user # threads[c].current_user
        /\ RowsOf(threads[d].token_data.token) =
              {PushToken(db.pushtoken_seq, threads[d].current_user, threads[d].token_data.token,
                         threads[d].token_data.device_token, threads[d].token_data.device_type)}


(* C15: the response of a toggle *)

\* The response of a toggle that was answered carries the ready state the
\* assay now has
C15_ReadyStateReported ==
    /\ (IsToggle /\ resp.kind = "marked") =>
          resp.ready = db.assayresult[resp.assay_id].ready
    /\ (IsToggle /\ resp.kind = "batch") =>
          \A i \in 1..Len(resp.results) :
              "status" \notin DOMAIN resp.results[i] =>
                  /\ resp.results[i].ready = req.data.ready
                  /\ "notifications_sent" \in DOMAIN resp.results[i]

\* C15: the response of mark_assay_ready and of batch_mark_assay_ready
\* carries the updated ready state of each assay toggled and a delivery
\* count, to ready and back to not ready, whatever the providers did with
\* the pushes.
C15_ToggleResponse ==
    /\ (IsToggle /\ resp.kind = "marked") =>
          /\ resp.ready = db.assayresult[resp.assay_id].ready
          /\ "notifications_sent" \in DOMAIN resp
    /\ (IsToggle /\ resp.kind = "batch") =>
          /\ "total_notifications_sent" \in DOMAIN resp
          /\ \A i \in 1..Len(resp.results) :
                "status" \notin DOMAIN resp.results[i] =>
                    /\ resp.results[i].ready = req.data.ready
                    /\ "notifications_sent" \in DOMAIN resp.results[i]


(* C16: delivery and persistence *)

\* What the handler of the last request does when every sender returns
Intended ==
    CASE req.endpoint = "mark_assay_ready" ->
            mark_assay_ready(pre, settings, req.role, req.assay_id, req.commit_ok)
      [] req.endpoint = "batch_mark_assay_ready" ->
            batch_mark_assay_ready(pre, settings, req.role, req.data, req.commit_ok)
      [] req.endpoint = "push_data" ->
            push_data(pre, settings, req.data, req.commit_ok)

\* Under a provider that answers, fails or cannot be reached the request
\* writes what its transaction holds
C16_CommitsWhenAnswered ==
    (req # Idle /\ provider # "silent") => db = Intended.db

\* C16: whatever the provider does, a request is not held by its pushes and
\* the database holds what the request's transaction wrote (the ready flag,
\* the notification records created and deleted).
C16_DeliveryDecoupled ==
    req # Idle =>
        /\ resp.kind # "blocked"
        /\ db = Intended.db


(* C17: no notification without a transition *)

\* The pushes of the last request about assay a, and the notification
\* records about it the request created and deleted
PushesAbout(a) == {i \in 1..Len(pushes) : pushes[i].data = a}
CreatedAbout(a) == {n \in Created : n.assay_id = a}
DeletedAbout(a) == {n \in Deleted : n.assay_id = a}

Listed(a) == \E i \in 1..Len(req.data.assay_ids) : req.data.assay_ids[i] = a

\* C17: a committed batch_mark_assay_ready creates no notification record,
\* deletes none and sends no push about a listed assay that already had the
\* requested ready value, and notifies once, however often the id is
\* listed, about an assay whose flag it changes; a committed sync update
\* that is applied and carries the ready value the assay already had
\* creates and deletes no record and sends no push.
C17_NoTransitionNoNotification ==
    /\ (req.endpoint = "batch_mark_assay_ready" /\ resp.kind = "batch") =>
          \A a \in DOMAIN pre.assayresult :
              LET customer == pre.assayresult[a].customer IN
              /\ (Listed(a) /\ pre.assayresult[a].ready = req.data.ready) =>
                    /\ PushesAbout(a) = {}
                    /\ CreatedAbout(a) = {}
                    /\ DeletedAbout(a) = {}
                    /\ db.assayresult[a].ready = pre.assayresult[a].ready
              /\ (Listed(a) /\ db.assayresult[a].ready # pre.assayresult[a].ready) =>
                    /\ Cardinality(PushesAbout(a)) = Cardinality(Registrations(customer))
                    /\ Cardinality(CreatedAbout(a)) = 1
    /\ (LoneAssay /\ req.data.assay_results[1].id \in DOMAIN pre.assayresult) =>
          LET rec == req.data.assay_results[1]
              old == pre.assayresult[rec.id]
          IN (rec.ready = old.ready) =>
                /\ db.notification = pre.notification
                /\ pushes = <<>>

\* A batch listed twice an assay it made ready: the one record and the
\* pushes of the first occurrence
C17_Witness ==
    /\ req.endpoint = "batch_mark_assay_ready" /\ resp.kind = "batch"
    /\ req.data.ready
    /\ req.data.assay_ids = <<1, 1>>
    /\ ~pre.assayresult[1].ready /\ db.assayresult[1].ready
    /\ Cardinality(CreatedAbout(1)) = 1
    /\ Len(pushes) = Cardinality(Registrations(1))
    /\ Len(pushes) > 1

\* A batch asked for the value the assay, ready and notified of by an
\* earlier call, already had
C17_SecondCall ==
    /\ req.endpoint = "batch_mark_assay_ready" /\ resp.kind = "batch"
    /\ req.data.ready /\ pre.assayresult[1].ready
    /\ Listed(1)
    /\ pre.notification # {} /\ db.notification = pre.notification
    /\ pushes = <<>>

\* A sync update was applied and left the ready flag as it was
C17_SyncSameFlag ==
    /\ LoneAssay
    /\ req.data.assay_results[1].id \in DOMAIN pre.assayresult
    /\ req.data.assay_results[1].ready
    /\ pre.assayresult[req.data.assay_results[1].id].ready
    /\ db.assayresult[req.data.assay_results[1].id].modified # pre.assayresult[req.data.assay_results[1].id].modified
    /\ resp.assay_results_synced = 1


(* C18: the revert of a toggle *)

\* The notification records outside the (customer, assay) pairs of the
\* assays the last request toggled
Others(database) ==
    {n \in database.notification :
        \A a \in AssayIds : Toggled(a) => n \notin RecordsOf(database, a)}

Reverted(a) == Toggled(a) /\ pre.assayresult[a].ready

\* What the code sends on a revert: to each registration of the customer
\* one visible alert titled "Assay Not Ready", on every channel
C19_OneVisibleAlertEach ==
    \A a \in AssayIds : Reverted(a) =>
        \A reg \in Registrations(pre.assayresult[a].customer) :
            LET mine == {i \in PushesAbout(a) : Targets(pushes[i], reg)} IN
            /\ Cardinality(mine) = 1
            /\ \A i \in mine : pushes[i].push_type = "alert"
                               /\ pushes[i].title = "Assay Not Ready"

\* C19: on a committed revert a registration routed to the native iOS
\* channel gets one push, a content-only retraction and no visible alert; a
\* registration routed to the Android or the fallback channel gets the
\* retraction and then a visible "Assay Not Ready" push.
C19_RevertPushesPerChannel ==
    \A a \in AssayIds : Reverted(a) =>
        \A reg \in Registrations(pre.assayresult[a].customer) :
            LET mine == {i \in PushesAbout(a) : Targets(pushes[i], reg)} IN
            IF \E i \in mine : pushes[i].channel = "apns"
            THEN /\ Cardinality(mine) = 1
                 /\ \A i \in mine : pushes[i].push_type = "background"
            ELSE /\ Cardinality(mine) = 2
                 /\ \E i \in mine, j \in mine :
                       /\ i < j
                       /\ pushes[i].push_type = "background"
                       /\ pushes[j].push_type = "alert"
                       /\ pushes[j].title = "Assay Not Ready"


(* C20: the dispatch of the two triggers *)

\* The push mark_assay_ready sends to a registration for a ready transition
\* of assay a
DirectPush(reg, a) ==
    send_push_notification(settings, reg.token, "Assay Ready", a,
                           reg.device_token, reg.device_type, a)

\* The registrations the pushes of a sync about its one assay went to, in
\* the order of the pushes
SyncRegs ==
    push_tokens_of(pre.pushtoken, db.assayresult[req.data.assay_results[1].id].customer)

\* What the code does: every push of a sync goes through the Expo service,
\* to the routing token, with no collapse key
C20_SyncAlwaysFallback ==
    IsPush => \A i \in 1..Len(pushes) :
                 /\ pushes[i].channel = "expo"
                 /\ pushes[i].collapse_id = None
                 /\ pushes[i].to \in {p.token : p \in pre.pushtoken}

\* C20: each alert a committed sync sends for an assay that became ready
\* goes through the channel, and carries the collapse key, of the alert the
\* direct toggle sends to the same registration.
C20_SameDispatch ==
    (LoneAssay /\ pushes # <<>>) =>
        \A i \in 1..Len(pushes) :
            LET direct == DirectPush(SyncRegs[i], req.data.assay_results[1].id) IN
            /\ pushes[i].channel = direct.channel
            /\ pushes[i].to = direct.to
            /\ pushes[i].collapse_id = direct.collapse_id


-----------------------------------------------------------------------------
(* C21: the forms of the incoming timestamp *)

\* The last-writer-wins rule on the parsed instants
NewerInstant(incoming, stored) == stored.form = "none" \/ incoming.t > stored.t

\* A Z-suffixed record for a row without a stored timestamp is applied, and
\* one without the suffix follows the rule
C21_AppliedWhereComparable ==
    \A t \in SyncTables :
        (Reported /\ LoneUpdate(t)
            /\ ~compare_raises(BatchOf(t)[1].modified, pre[t][BatchOf(t)[1].id].modified)) =>
            LET rec == BatchOf(t)[1] IN
            IF NewerInstant(rec.modified, pre[t][rec.id].modified)
            THEN Applied(t, rec) /\ SyncedOf(t) = 1
            ELSE Untouched(t, rec.id) /\ SyncedOf(t) = 0 /\ ~HasError(t, rec.id)

\* C21: in a committed push_data, a record for a stored row whose modified
\* is an ISO-8601 string with a Z suffix is applied when its instant is
\* newer than the stored timestamp (or none is stored) and discarded
\* otherwise, and it has no entry in the error list.
C21_ZSuffixSameRule ==
    \A t \in SyncTables :
        (Reported /\ LoneUpdate(t) /\ BatchOf(t)[1].modified.form = "aware") =>
            LET rec == BatchOf(t)[1] IN
            /\ ~HasError(t, rec.id)
            /\ IF NewerInstant(rec.modified, pre[t][rec.id].modified)
               THEN Applied(t, rec) /\ SyncedOf(t) = 1
               ELSE Untouched(t, rec.id) /\ SyncedOf(t) = 0


-----------------------------------------------------------------------------
(* C22: the order of the entity types *)

Rank(entity) ==
    CASE entity = "User" -> 1
      [] entity = "AssayResult" -> 2
      [] entity = "SpoilRecord" -> 3
      [] entity = "Loss" -> 4

\* The ids of the error entries of table t, in the order of the list
ErrorIds(t) ==
    LET RECURSIVE pick(_)
        pick(es) == IF es = <<>> THEN <<>>
                    ELSE IF Head(es).entity = EntityOf(t)
                    THEN <<Head(es).id>> \o pick(Tail(es))
                    ELSE pick(Tail(es))
    IN pick(resp.errors)

\* The ids of the malformed records of the batch's list for table t
MalformedIds(t) ==
    LET RECURSIVE pick(_)
        pick(rs) == IF rs = <<>> THEN <<>>
                    ELSE IF Malformed(Head(rs))
                    THEN <<Head(rs).id>> \o pick(Tail(rs))
                    ELSE pick(Tail(rs))
    IN pick(BatchOf(t))

\* The batch is one well-formed record for a new user and one well-formed
\* record of table t that names that user as its customer, for a new id or
\* newer than the stored row
RefersToNewUser(t) ==
    /\ IsPush
    /\ Len(req.data.users) = 1
    /\ Len(BatchOf(t)) = 1
    /\ Len(req.data.users) + Len(req.data.assay_results)
          + Len(req.data.spoil_records) + Len(req.data.losses) = 2
    /\ ~Malformed(req.data.users[1]) /\ ~Malformed(BatchOf(t)[1])
    /\ req.data.users[1].id \notin DOMAIN pre.user
    /\ BatchOf(t)[1].customer = req.data.users[1].id
    /\ \/ BatchOf(t)[1].id \notin DOMAIN pre[t]
       \/ StampedAndNewer(BatchOf(t)[1].modified, pre[t][BatchOf(t)[1].id].modified)

C22_Unreferenced ==
    /\ IsPush
    /\ req.data.users = <<>>
    /\ Len(req.data.spoil_records) = 1
    /\ ~Malformed(req.data.spoil_records[1])
    /\ req.data.spoil_records[1].customer \notin DOMAIN pre.user
    /\ req.commit_ok
    /\ resp.kind = "exception"
    /\ db = pre

\* A batch listed a malformed record in each of two lists
C22_TwoErrors ==
    /\ Reported
    /\ Len(resp.errors) = 2
    /\ Rank(resp.errors[1].entity) < Rank(resp.errors[2].entity)


-----------------------------------------------------------------------------
(* C23: pushes and the commit *)

\* The transition push i announces is in the database: the assay has the
\* flag of the push's title and the request added the notification record
Persisted(i) ==
    LET a == pushes[i].data IN
    /\ a \in DOMAIN db.assayresult
    /\ db.assayresult[a].ready = (pushes[i].title = "Assay Ready")
    /\ a \in DOMAIN pre.assayresult => pre.assayresult[a].ready # db.assayresult[a].ready
    /\ \E n \in Created : n.assay_id = a /\ n.title = pushes[i].title

\* The pushes of a request that committed announce what it committed
C23_PersistedWhenCommitted ==
    (req # Idle /\ resp.kind \in {"marked", "batch", "report"}) =>
        \A i \in 1..Len(pushes) : Persisted(i)

\* C23: every push a toggle or a sync has had delivered announces a change
\* of the ready flag and a notification record that the request committed;
\* a request whose commit fails has had no push delivered.
C23_PushImpliesPersisted ==
    (req # Idle /\ provider = "accepts") =>
        /\ \A i \in 1..Len(pushes) : Persisted(i)
        /\ resp.kind = "exception" => pushes = <<>>


-----------------------------------------------------------------------------
(* C24: a direct toggle and a stale sync *)

\* The assays the last request, a toggle, set
SetBy(a) ==
    \/ req.endpoint = "mark_assay_ready" /\ resp.kind = "marked" /\ req.assay_id = a
    \/ /\ req.endpoint = "batch_mark_assay_ready" /\ resp.kind = "batch"
       /\ \E i \in 1..Len(resp.results) :
             resp.results[i].assay_id = a /\ "status" \notin DOMAIN resp.results[i]

\* The record's timestamp is not later than T
NotLater(stamp, T) == stamp.form = "naive" => stamp.t <= T.t

\* C24: a committed toggle leaves the assay's modified at the toggle time;
\* a later sync record for an assay whose modified is the toggle time, with
\* a timestamp not later than it, leaves the row's fields and the
\* notifications unchanged and sends no push; and get_changes returns the
\* assay for every since earlier than the toggle time.
C24_ToggleWinsOverStaleSync ==
    /\ \A a \in AssayIds : (IsToggle /\ SetBy(a)) => db.assayresult[a].modified = now
    /\ (IsPush /\ Len(req.data.assay_results) = 1) =>
          LET rec == req.data.assay_results[1] IN
          (pre.assayresult[rec.id].modified = now /\ NotLater(rec.modified, now)) =>
              /\ db.assayresult[rec.id] = pre.assayresult[rec.id]
              /\ db.notification = pre.notification
              /\ pushes = <<>>
    /\ req.endpoint = "get_changes" =>
          \A a \in DOMAIN db.assayresult :
              (db.assayresult[a].modified = now /\ req.since < now.t) =>
                  a \in resp.assay_results

\* After a toggle made assay 1 ready, a sync record stamped with the toggle
\* time asked for not ready and changed nothing
C24_Witness ==
    /\ IsPush /\ resp.kind = "report"
    /\ Len(req.data.assay_results) = 1
    /\ req.data.assay_results[1].id = 1
    /\ req.data.assay_results[1].modified = now
    /\ ~req.data.assay_results[1].ready
    /\ pre.assayresult[1].ready /\ pre.assayresult[1].modified = now
    /\ db.assayresult[1].ready
    /\ \E n \in db.notification : n.assay_id = 1 /\ n.title = "Assay Ready"

\* get_changes returned a toggled assay and left out one that was not
C24_Changes ==
    /\ req.endpoint = "get_changes"
    /\ req.since = 1
    /\ resp.assay_results = {1}
    /\ db.assayresult[1].modified = now
    /\ db.assayresult[2].modified # now


-----------------------------------------------------------------------------
(* C25: the counts of the report *)

\* C25: in a report of push_data, each record of a list is counted or has
\* an error entry or neither, never both: the count of a list is at most
\* the number of its records without an error entry; and
\* notifications_created is the number of notification records the batch
\* added.
C25_CountsExcludeFailed ==
    Reported =>
        /\ \A t \in SyncTables :
              /\ Len(ErrorIds(t)) <= Len(BatchOf(t))
              /\ SyncedOf(t) <= Len(BatchOf(t)) - Len(ErrorIds(t))
        /\ resp.notifications_created = Cardinality(Created)
        /\ Deleted = {}
        /\ Len(resp.errors) = Len(ErrorIds("user")) + Len(ErrorIds("assayresult"))
                               + Len(ErrorIds("spoilrecord")) + Len(ErrorIds("loss"))

\* A report with one record in error and one counted, a new ready assay
\* that was notified of
C25_Witness ==
    /\ Reported
    /\ Len(resp.errors) = 1
    /\ resp.assay_results_synced = 1
    /\ resp.users_synced = 0 /\ Len(req.data.users) = 1
    /\ resp.notifications_created = 1
    /\ Cardinality(Created) = 1


-----------------------------------------------------------------------------
(* C26: a generation that fails *)

\* C26: for calls that do not overlap, the step in which a generation fails
\* leaves the cache entry as the call found it and gives the sender the
\* failed result; and a call that finds the cache as a failed call found
\* it, at the same time or later, generates again.
C26_CacheKeptOnFailure ==
    /\ [][\A c \in Callers :
            (threads[c].pc = "generate" /\ threads'[c].pc = "raised") =>
                /\ cache' = cache
                /\ cache'[threads[c].key] = threads[c].at_call
                /\ threads'[c].sent = "status 0"]_vars
    /\ [](\A c \in Callers, d \in Callers :
            (/\ threads[c].pc = "raised"
             /\ threads[d].pc \in {"done", "raised"}
             /\ threads[d].at_call = threads[c].at_call
             /\ threads[d].now >= threads[c].now) => threads[d].regenerated)

\* A generation failed on a cache that held an expired credential, and the
\* next call found the credential and its time still there and generated a
\* new one
C26_Witness ==
    \E c \in Callers, d \in Callers :
        /\ c # d
        /\ threads[c].pc = "raised" /\ threads[c].sent = "status 0"
        /\ threads[c].at_call.token # NoToken
        /\ threads[d].pc = "done"
        /\ threads[d].at_call = threads[c].at_call
        /\ threads[d].now > threads[c].now
        /\ threads[d].regenerated
        /\ threads[d].result = Token(threads[d].now, d)
        /\ cache[threads[d].key] = [token |-> threads[d].result, generated_at |-> threads[d].now]


-----------------------------------------------------------------------------
(* C27 *)

IsNotificationCall ==
    req.endpoint \in {"mark_notification_as_read", "mark_all_notifications_as_read",
                      "delete_notification"}

NamesOne == req.endpoint \in {"mark_notification_as_read", "delete_notification"}

\* The record the last call named, when the caller owns it
NamedOwn ==
    {n \in pre.notification : n.id = req.notification_id /\ n.user_id = req.user_id}

\* C27: mark-as-read, mark-all-as-read and delete change only notification
\* records owned by the calling user; a call naming a record of another user
\* or a missing record answers 404 and leaves every record unchanged; a record
\* is created unread and a read record is never unread again
C27_OwnershipIsolation ==
    /\ IsNotificationCall =>
          /\ {n \in pre.notification : n.user_id # req.user_id}
                = {n \in db.notification : n.user_id # req.user_id}
          /\ \A f \in DOMAIN db \ {"notification"} : db[f] = pre[f]
          /\ Len(pushes) = 0
    /\ (NamesOne /\ NamedOwn = {}) => (resp = NotFound /\ db = pre)
    /\ (NamesOne /\ NamedOwn # {}) => resp # NotFound
    /\ (req.endpoint = "mark_notification_as_read" /\ resp.kind = "ok") =>
          db.notification = {IF n \in NamedOwn THEN [n EXCEPT !.read = TRUE] ELSE n :
                                n \in pre.notification}
    /\ (req.endpoint = "delete_notification" /\ resp.kind = "ok") =>
          db.notification = pre.notification \ NamedOwn
    /\ (req.endpoint = "mark_all_notifications_as_read" /\ resp.kind = "ok") =>
          \A n \in db.notification : n.user_id = req.user_id => n.read
    /\ \A n \in db.notification :
          (\A m \in pre.notification : m.id # n.id) => n.read = FALSE
    /\ \A m \in pre.notification : \A n \in db.notification :
          (n.id = m.id /\ m.read) => n.read

\* A caller named a record of the other user, which exists, and got 404
C27_Witness ==
    /\ NamesOne
    /\ \E n \in pre.notification : n.id = req.notification_id /\ n.user_id # req.user_id
    /\ resp = NotFound
    /\ db = pre

\* A caller marked all read while the other user had an unread record, which
\* stayed unread
C27_OthersUnread ==
    /\ req.endpoint = "mark_all_notifications_as_read"
    /\ resp.kind = "ok"
    /\ \E n \in db.notification : n.user_id # req.user_id /\ n.read = FALSE
    /\ \E n \in db.notification : n.user_id = req.user_id /\ n.read
    /\ db # pre

\* A read record survived a later toggle that created another record
C27_ReadStays ==
    /\ IsToggle
    /\ Created # {}
    /\ \E n \in db.notification : n.read


-----------------------------------------------------------------------------
(* C28 *)

\* The soft-deleted assays before the last request
SoftDeleted == {a \in DOMAIN pre.assayresult : pre.assayresult[a].deleted = TRUE}

\* Nothing about assay a was changed, recorded or sent by the last request
Inert(a) ==
    /\ db.assayresult[a] = pre.assayresult[a]
    /\ CreatedAbout(a) = {}
    /\ DeletedAbout(a) = {}
    /\ PushesAbout(a) = {}

\* The query of the handlers reaches assay a for the caller's role
Reaches(a) ==
    /\ a \notin SoftDeleted
    /\ req.role = "testworker" => pre.user[pre.assayresult[a].customer].role = "testcustomer"

\* C28: mark_assay_ready on a soft-deleted assay answers 404 and
\* batch_mark_assay_ready reports it as not_found; its ready flag and
\* modified timestamp are unchanged, no notification record about it is
\* created or deleted and no push is sent for it, while the other assays of
\* the batch are still processed
C28_SoftDeletedInert ==
    /\ (IsToggle /\ req.role \in StaffRoles) => \A a \in SoftDeleted : Inert(a)
    /\ (req.endpoint = "mark_assay_ready" /\ req.role \in StaffRoles
           /\ req.assay_id \in SoftDeleted) =>
          /\ resp = [kind |-> "http", status |-> 404]
          /\ db = pre
          /\ Len(pushes) = 0
    /\ (req.endpoint = "batch_mark_assay_ready" /\ resp.kind = "batch") =>
          /\ Len(resp.results) = Len(req.data.assay_ids)
          /\ \A i \in 1..Len(req.data.assay_ids) :
                LET a == req.data.assay_ids[i] IN
                /\ a \in SoftDeleted =>
                      resp.results[i] = [assay_id |-> a, status |-> "not_found"]
                /\ Reaches(a) =>
                      /\ "status" \notin DOMAIN resp.results[i]
                      /\ resp.results[i].assay_id = a
                      /\ resp.results[i].ready = req.data.ready
                      /\ db.assayresult[a].ready = req.data.ready
                      /\ db.assayresult[a].modified = now

\* A batch named the soft-deleted assay 2 first, to mark it ready, and then
\* assay 1, which became ready with its record created and pushes sent
C28_Witness ==
    /\ req.endpoint = "batch_mark_assay_ready"
    /\ req.data = [assay_ids |-> <<2, 1>>, ready |-> TRUE]
    /\ resp.kind = "batch"
    /\ 2 \in SoftDeleted
    /\ ~pre.assayresult[2].ready
    /\ ~pre.assayresult[1].ready
    /\ db.assayresult[1].ready
    /\ CreatedAbout(1) # {}
    /\ PushesAbout(1) # {}

\* A batch named the soft-deleted ready assay 2 to revert it, and the record
\* of its ready transition is still there
C28_RevertInert ==
    /\ req.endpoint = "batch_mark_assay_ready"
    /\ req.data.ready = FALSE
    /\ \E i \in 1..Len(req.data.assay_ids) : req.data.assay_ids[i] = 2
    /\ resp.kind = "batch"
    /\ 2 \in SoftDeleted
    /\ pre.assayresult[2].ready
    /\ \E n \in db.notification : n.assay_id = 2 /\ n.title = "Assay Ready"

\* mark_assay_ready named the soft-deleted ready assay
C28_MarkNotFound ==
    /\ req.endpoint = "mark_assay_ready"
    /\ req.role = "admin"
    /\ req.assay_id \in SoftDeleted
    /\ pre.assayresult[req.assay_id].ready
    /\ resp = [kind |-> "http", status |-> 404]


-----------------------------------------------------------------------------
(* C29 *)

\* The rows of the token the last call named, before and after it
RowsBefore == {r \in pre.pushtoken : r.token = req.token}
TokenBefore == {r \in pre.pushtoken : r.token = req.token_data.token}
TokenAfter == {r \in db.pushtoken : r.token = req.token_data.token}

\* C29: unregister_push_token deletes a registration only when the caller
\* owns the routing token, and otherwise leaves the store unchanged and
\* still answers success; registering a known token under another account
\* moves its single row to that account, and a ready transition sends
\* pushes only to the registrations its assay's customer owns at that time
C29_RegistrationOwnership ==
    /\ req.endpoint = "unregister_push_token" =>
          /\ pre.pushtoken \ db.pushtoken \subseteq
                {r \in RowsBefore : r.user_id = req.user_id}
          /\ db.pushtoken \subseteq pre.pushtoken
          /\ (\A r \in RowsBefore : r.user_id # req.user_id) =>
                (db = pre /\ resp = [kind |-> "ok"])
          /\ ((\E r \in RowsBefore : r.user_id = req.user_id) /\ resp.kind = "ok") =>
                db.pushtoken = pre.pushtoken \ RowsBefore
    /\ (req.endpoint = "register_push_token" /\ resp.kind = "ok"
           /\ TokenBefore # {}) =>
          /\ Cardinality(TokenBefore) = 1
          /\ TokenAfter = {assigned(r, req.user_id, req.token_data) : r \in TokenBefore}
          /\ {r \in db.pushtoken : r.token # req.token_data.token}
                = {r \in pre.pushtoken : r.token # req.token_data.token}
    /\ \A token \in CalledTokens : Cardinality({r \in db.pushtoken : r.token = token}) <= 1
    /\ IsToggle =>
          \A i \in 1..Len(pushes) :
             \E r \in pre.pushtoken :
                /\ r.user_id = pre.assayresult[pushes[i].data].customer
                /\ pushes[i].to = IF pushes[i].channel = "expo" THEN r.token
                                  ELSE r.device_token

\* Token a, first the row 1 of customer 1, is the same row owned by customer
\* 2; a ready transition of customer 1's assay sent pushes, none to token a
C29_Witness ==
    /\ req.endpoint = "mark_assay_ready"
    /\ req.assay_id = 1
    /\ CreatedAbout(1) # {}
    /\ \E r \in pre.pushtoken :
          r.id = 1 /\ r.token = "ExponentPushToken[a]" /\ r.user_id = 2
    /\ Len(pushes) > 0
    /\ \A i \in 1..Len(pushes) : pushes[i].to \notin {"ExponentPushToken[a]", "apns-a"}

\* A register call moved the row of another account
C29_Moved ==
    /\ req.endpoint = "register_push_token"
    /\ resp.kind = "ok"
    /\ \E r \in TokenBefore : r.user_id # req.user_id
    /\ \A r \in TokenAfter : r.user_id = req.user_id

\* An unregister call named the token of another account and was answered
\* success with the store unchanged
C29_NotOwned ==
    /\ req.endpoint = "unregister_push_token"
    /\ \E r \in RowsBefore : r.user_id # req.user_id
    /\ resp = [kind |-> "ok"]
    /\ db = pre

\* An unregister call of the owner deleted the row
C29_Unregistered ==
    /\ req.endpoint = "unregister_push_token"
    /\ \E r \in RowsBefore : r.user_id = req.user_id
    /\ resp.kind = "ok"
    /\ db.pushtoken = pre.pushtoken \ RowsBefore


-----------------------------------------------------------------------------
(***************************************************************************)
(* The refresh tokens of routers/auth.py: login, logout and the refresh    *)
(* endpoint.  The requests of the refresh endpoint run in the threads of   *)
(* the worker pool, each in its own session, interleaved at their commits. *)
(***************************************************************************)
REFRESH_TOKEN_EXPIRE_DAYS == 120

\* The instants of a behaviour: a token issued at 0 is expired from
\* REFRESH_TOKEN_EXPIRE_DAYS on
Moments == {0, 1, REFRESH_TOKEN_EXPIRE_DAYS, REFRESH_TOKEN_EXPIRE_DAYS + 1}

MaxTokens == 3   \* refresh token rows ever inserted in one behaviour

\* create_token for the refresh token: the signed claims sub, type and exp;
\* two tokens of one user issued at one instant are the same string
create_token(sub, now_) == [sub |-> sub, exp |-> now_ + REFRESH_TOKEN_EXPIRE_DAYS]

RefreshToken(id, user_id, created) ==
    [id |-> id, user_id |-> user_id, token |-> create_token(user_id, created),
     expires_at |-> created + REFRESH_TOKEN_EXPIRE_DAYS, created |-> created,
     revoked |-> FALSE]

\* jwt.decode raises ExpiredSignatureError, a JWTError
decode_raises(current_token, now_) == current_token.exp < now_

\* Mutant: the query of the refresh endpoint without the revoked filter
valid_or_revoked(database, current_token, now_) ==
    {r \in database.refreshtoken : r.token = current_token /\ r.expires_at > now_}

\* filter(token == current_token, revoked == False, expires_at > now)
valid_token(database, current_token, now_) ==
    {r \in database.refreshtoken :
        r.token = current_token /\ r.revoked = FALSE /\ r.expires_at > now_}

\* filter(token == current_token, revoked == False), of logout
unrevoked_token(database, current_token) ==
    {r \in database.refreshtoken : r.token = current_token /\ r.revoked = FALSE}

\* db_token.revoked = True for the rows of ids, and the commit
revoke(database, ids) ==
    [database EXCEPT !.refreshtoken =
        {IF r.id \in ids THEN [r EXCEPT !.revoked = TRUE] ELSE r : r \in @}]

\* create_tokens: the insert of the new refresh token; the unique index on
\* refreshtoken.token, or the database (commit_ok), makes the commit raise,
\* which the function answers with 500
create_tokens(database, user_id, now_, commit_ok) ==
    LET row == RefreshToken(database.refreshtoken_seq + 1, user_id, now_) IN
    IF ~commit_ok \/ \E r \in database.refreshtoken : r.token = row.token
    THEN [db |-> database, status |-> 500]
    ELSE [db |-> [database EXCEPT !.refreshtoken = @ \cup {row},
                                  !.refreshtoken_seq = @ + 1],
          status |-> 200]

\* A thread of the refresh endpoint: db_token is the row found, by its id
NoCall == [pc |-> "idle", current_token |-> create_token(0, 0), db_token |-> 0,
           status |-> 0]

\* The refresh tokens a client can present: those issued so far
Issued == {r.token : r \in db.refreshtoken}

\* The requests of the refresh endpoint that have not answered yet
InFlight == {c \in Callers : threads[c].pc \in {"query", "revoke", "create"}}

\* resp holds the refresh tokens, by row id, that the refresh endpoint
\* answered 200 for, in order, and those logout answered 200 for
NoAnswers == [kind |-> "answers", refreshed |-> <<>>, logged_out |-> {}]

\* What the token endpoints leave alone
Unobserved == UNCHANGED <<settings, pre, req, pushes, provider, cache>>

\* POST /refresh arrives
Refresh(c) ==
    /\ threads[c].pc \in {"idle", "done"}
    /\ db.refreshtoken_seq + Cardinality(InFlight) < MaxTokens
    /\ \E current_token \in Issued :
          threads' = [threads EXCEPT ![c] =
                         [NoCall EXCEPT !.pc = "query", !.current_token = current_token]]
    /\ UNCHANGED <<db, resp, clock>>
    /\ Unobserved

\* jwt.decode and "Find and validate the refresh token in database"
FindRefreshToken(c) ==
    LET t == threads[c]
        found == valid_token(db, t.current_token, clock)
    IN /\ t.pc = "query"
       /\ threads' = [threads EXCEPT ![c] =
             IF decode_raises(t.current_token, clock) \/ found = {}
             THEN [t EXCEPT !.pc = "done", !.status = 401]
             ELSE [t EXCEPT !.pc = "revoke",
                            !.db_token = (CHOOSE r \in found : TRUE).id]]
       /\ UNCHANGED <<db, resp, clock>>
       /\ Unobserved

\* "Revoke the used refresh token": db_token.revoked = True; db.commit()
RevokeUsed(c) ==
    LET t == threads[c] IN
    /\ t.pc = "revoke"
    /\ \E commit_ok \in BOOLEAN :
          IF commit_ok
          THEN /\ db' = revoke(db, {t.db_token})
               /\ threads' = [threads EXCEPT ![c].pc = "create"]
          ELSE /\ threads' = [threads EXCEPT ![c].pc = "done", ![c].status = 500]
               /\ UNCHANGED db
    /\ UNCHANGED <<resp, clock>>
    /\ Unobserved

\* "Create new tokens" and the answer
CreateNew(c) ==
    LET t == threads[c] IN
    /\ t.pc = "create"
    /\ \E commit_ok \in BOOLEAN :
          LET r == create_tokens(db, t.current_token.sub, clock, commit_ok) IN
          /\ db' = r.db
          /\ threads' = [threads EXCEPT ![c].pc = "done", ![c].status = r.status]
          /\ resp' = IF r.status = 200
                     THEN [resp EXCEPT !.refreshed = Append(@, t.db_token)]
                     ELSE resp
    /\ UNCHANGED clock
    /\ Unobserved

refresh_token(c) ==
    \/ Refresh(c)
    \/ FindRefreshToken(c)
    \/ RevokeUsed(c)
    \/ CreateNew(c)

\* POST /logout, in one step
logout(database, current_token, now_, commit_ok) ==
    LET found == unrevoked_token(database, current_token) IN
    IF decode_raises(current_token, now_) \/ found = {}
    THEN [db |-> database, status |-> 401, revoked |-> {}]
    ELSE IF ~commit_ok THEN [db |-> database, status |-> 500, revoked |-> {}]
    ELSE [db |-> revoke(database, {(CHOOSE r \in found : TRUE).id}), status |-> 200,
          revoked |-> {(CHOOSE r \in found : TRUE).id}]

Logout ==
    /\ \E current_token \in Issued, commit_ok \in BOOLEAN :
          LET r == logout(db, current_token, clock, commit_ok) IN
          /\ db' = r.db
          /\ resp' = [resp EXCEPT !.logged_out = @ \cup r.revoked]
    /\ UNCHANGED <<threads, clock>>
    /\ Unobserved

\* POST /login of a customer with max_devices 1, in one step: the active
\* tokens are revoked to make room, then create_tokens
login(database, user_id, now_, commit_ok) ==
    LET active_tokens == {r \in database.refreshtoken :
                             r.user_id = user_id /\ r.revoked = FALSE
                                /\ r.expires_at > now_}
    IN create_tokens(revoke(database, {r.id : r \in active_tokens}), user_id, now_,
                     commit_ok)

Login ==
    /\ db.refreshtoken_seq + Cardinality(InFlight) < MaxTokens
    /\ \E commit_ok \in BOOLEAN : db' = login(db, 1, clock, commit_ok).db
    /\ UNCHANGED <<threads, resp, clock>>
    /\ Unobserved

\* Time passes
Later ==
    /\ \E m \in Moments : m > clock /\ clock' = m
    /\ UNCHANGED <<db, threads, resp>>
    /\ Unobserved

\* The customer has logged in once, at 0
InitRefresh ==
    /\ db = [refreshtoken |-> {RefreshToken(1, 1, 0)}, refreshtoken_seq |-> 1]
    /\ clock = 0
    /\ threads = [c \in Callers |-> NoCall]
    /\ resp = NoAnswers
    /\ pre = db
    /\ req = Idle
    /\ pushes = <<>>
    /\ settings = Configured
    /\ provider = "accepts"
    /\ cache = [k \in CacheKeys |-> EmptyCache]

NextRefresh ==
    \/ \E c \in Callers : refresh_token(c)
    \/ Logout
    \/ Login
    \/ Later

SpecRefresh == InitRefresh /\ [][NextRefresh]_vars

\* The same with the requests of the refresh endpoint served one at a time
NextRefreshAlone ==
    \/ \E c \in Callers : InFlight \subseteq {c} /\ refresh_token(c)
    \/ InFlight = {} /\ Logout
    \/ InFlight = {} /\ Login
    \/ Later

SpecRefreshAlone == InitRefresh /\ [][NextRefreshAlone]_vars

(* C30 *)

\* No token was answered 200 by the refresh endpoint twice
AcceptedAtMostOnce ==
    \A i, j \in 1..Len(resp.refreshed) : resp.refreshed[i] = resp.refreshed[j] => i = j

\* Every token the refresh endpoint or logout answered 200 for is revoked
C30_SuccessRevokes ==
    \A r \in db.refreshtoken :
        (r.id \in resp.logged_out \/ \E i \in 1..Len(resp.refreshed) : resp.refreshed[i] = r.id)
            => r.revoked

\* No step takes a row from revoked to not revoked, or removes it
C30_RevokedStays ==
    [][\A r \in db.refreshtoken :
          r.revoked => \E s \in db'.refreshtoken : s.id = r.id /\ s.revoked]_vars

\* The refresh endpoint's query lets no revoked or expired token through
C30_QueryRejects ==
    [][\A c \in Callers :
          (threads[c].pc = "query" /\ threads'[c].pc = "revoke") =>
             \E r \in db.refreshtoken :
                /\ r.id = threads'[c].db_token
                /\ r.token = threads[c].current_token
                /\ ~r.revoked
                /\ r.expires_at > clock]_vars

\* Requests of the refresh endpoint served one at a time accept a token at
\* most once
C30_OnceWhenAlone == AcceptedAtMostOnce

\* C30: a refresh token is accepted by the refresh endpoint at most once; a
\* successful refresh or logout marks it revoked; a revoked or expired token
\* is rejected by refresh; no operation changes a token from revoked back to
\* not revoked
C30_RefreshRotation ==
    /\ [](AcceptedAtMostOnce /\ C30_SuccessRevokes)
    /\ C30_QueryRejects
    /\ C30_RevokedStays

====
